---- MODULE Spec2Model ----
(***************************************************************************)
(* Location ingestion pipeline of go-multi-tenant-system: session          *)
(* handlers (location service), producer worker pool, bus consumer         *)
(* (streaming service), dead-letter table and retry sweep (retry-consumer).*)
(* Time is counted in ticks of one minute.                                 *)
(***************************************************************************)
EXTENDS Integers, Sequences, FiniteSets, TLC

\* ---------------------------------------------------------------- bounds
MaxTime == 3          \* clock horizon of Spec, unit ticks of SpecBackoff
MaxSessions == 2      \* rows of location_sessions
MaxFixes == 2         \* rows of locations
PipeSessions == 1     \* sessions started in SpecProducer
PipeFixes == 1        \* events on the bus at the start of Spec
QueueCap == 1         \* capacity of locationEventChan in the model
MaxBackoffTime == 140 \* clock horizon of SpecBackoff
MaxTouchers == 2      \* background LastUsedAt updates in flight in SpecAuth
ClockStep == 15       \* seconds between two readings of the clock in SpecBreaker
MaxClock == 60        \* clock horizon of SpecBreaker, seconds
TokenLen == 22        \* characters of an issued bearer token
ShortLen == 3         \* characters of a bearer token no login issued
HashLen == 4          \* hex digits of the digest in the model
BacklogRows == 102    \* rows of failed_location_updates at the start of SpecPriority

\* ------------------------------------------------------- program constants
maxRetries == 8
maxFailures == 5
resetTimeout == 30
halfOpenMax == 1
LogPrefixLen == 20
batchSize == 100
BaseDelay == 1            \* 1 * time.Minute, in ticks
SecondsPerTick == 60
DefaultDuration == 600

NoTime == -1              \* a NULL timestamp column / nil *time.Time
NoId == 0                 \* no row

Users == {"u1", "u2"}
TenantOf(u) == IF u = "u1" THEN "tA" ELSE "tB"
Procs == {"p1", "p2"}          \* concurrent HTTP request goroutines
Workers == {"w1", "w2"}              \* producer worker goroutines
Sweepers == {"s1", "s2"}       \* retry-consumer instances
DurationInputs == {0, 60}      \* StartSessionRequest.Duration, seconds
CoordInputs == {<<40, -74>>, <<0, 0>>, <<91, -74>>}

SessionStatusActive == "active"
SessionStatusEnded == "ended"
SessionStatusExpired == "expired"
SessionStatusCancelled == "cancelled"

VARIABLES
    now,        \* wall clock, ticks
    sessions,   \* table location_sessions: Seq of rows, id = index
    cache,      \* redis key session:active:{id} -> <<>> or <<entry>>
    locations,  \* table locations: Seq of Fix rows, id = index
    req,        \* per request goroutine: position and locals
    chan,       \* KafkaProducer.locationEventChan
    queued,     \* KafkaProducer.locationEventsQueued
    dropped,    \* KafkaProducer.locationEventsDropped
    worker,     \* per producer worker: position and the event in hand
    shutdown,   \* shutdownChan closed
    bus,        \* topic location-updates: Seq of encoded messages
    consumer,   \* KafkaConsumer loop: position and the decoded event
    dlq,        \* table failed_location_updates: Seq of rows, id = index
    sweeper,    \* per retry-consumer: position, batch, current row copy
    postLog,    \* history: POSTs received by the external endpoint
    lastPost,   \* history: payload of the latest POST
    hist,       \* history: bookkeeping of emitted and lost events, gates
    tokenStore, \* redis key token:session:{hash} -> <<>> or <<entry>>
    authReq,    \* per authenticated request: position, token, answer
    toucher,    \* background UpdateTokenSessionLastUsed goroutines
    revoked,    \* history: tokens whose RevokeTokenSession has returned
    authLog,    \* standard output of the middleware: lines written
    breaker,    \* CircuitBreaker: state, failures, lastFailure, halfOpenReq
    call,       \* per caller of CircuitBreaker.Call: position, outcome
    clock,      \* time.Now() of the auth service, seconds
    streak,     \* history: failures recorded since the last recorded success
    dbconn,     \* per pooled connection: app.current_tenant_id, holder
    ctxReq      \* per request of the location service: position, user, seen

vars == <<now, sessions, cache, locations, req, chan, queued, dropped,
          worker, shutdown, bus, consumer, dlq, sweeper, postLog, lastPost,
          hist, tokenStore, authReq, toucher, revoked, authLog, breaker, call, clock,
          streak, dbconn, ctxReq>>

\* ------------------------------------------------------------ helpers
Range(s) == {s[i] : i \in DOMAIN s}

RECURSIVE Pow2(_)
Pow2(n) == IF n <= 0 THEN 1 ELSE 2 * Pow2(n - 1)

SessionIds == 1..Len(sessions)

\* seconds elapsed since a start time: time.Since(t).Seconds()
ElapsedSeconds(t) == (now - t) * SecondsPerTick

\* --------------------------------------------------------- session model
\* models.LocationSession row
NewSession(id, u, dur) ==
    [id |-> id, tenant |-> TenantOf(u), user |-> u,
     status |-> SessionStatusActive, started_at |-> now,
     ended_at |-> NoTime, duration |-> dur]

\* LocationSession.GetDuration
GetDuration(s) ==
    IF s.ended_at # NoTime
    THEN (s.ended_at - s.started_at) * SecondsPerTick
    ELSE ElapsedSeconds(s.started_at)

\* LocationSession.EndSession
EndSession(s) ==
    LET e == [s EXCEPT !.ended_at = now, !.status = SessionStatusEnded]
    IN [e EXCEPT !.duration = GetDuration(e)]

\* utils.CacheSet: redis SET with an expiration; an expiration that is not
\* positive sets no expiry
CacheEntry(s, ttlSeconds) ==
    [sess |-> s,
     exp |-> IF ttlSeconds > 0 THEN now + (ttlSeconds \div SecondsPerTick)
             ELSE NoTime]

CacheSet(id, s, ttlSeconds) == [cache EXCEPT ![id] = <<CacheEntry(s, ttlSeconds)>>]

\* utils.CacheGet: the entry, or <<>> for "key not found"
CacheGet(id) ==
    IF cache[id] # <<>> /\ (cache[id][1].exp = NoTime \/ now < cache[id][1].exp)
    THEN cache[id] ELSE <<>>

\* redisClient.Del
CacheDel(id) == [cache EXCEPT ![id] = <<>>]

\* a request goroutine with no request
IdleReq ==
    [pc |-> "idle", user |-> "", sid |-> NoId, lat |-> 0, lon |-> 0,
     dur |-> 0, sess |-> <<>>, fix |-> NoId, resp |-> 0, body |-> <<>>]

\* the handler has written its response
Done(r, code) == [r EXCEPT !.pc = "done", !.resp = code, !.sess = <<>>]

InFlight(pcs) == Cardinality({q \in Procs : req[q].pc \in pcs})

\* what no step of the location pipeline changes
TokensUnchanged ==
    UNCHANGED <<tokenStore, authReq, toucher, revoked, authLog>>
BreakerUnchanged == UNCHANGED <<breaker, call, clock, streak>>
PoolUnchanged == UNCHANGED <<dbconn, ctxReq>>
IdentityUnchanged == TokensUnchanged /\ BreakerUnchanged /\ PoolUnchanged

\* what no session handler changes
PipelineUnchanged ==
    /\ UNCHANGED <<worker, shutdown, bus, consumer, dlq, sweeper, postLog,
                   lastPost>>
    /\ IdentityUnchanged

\* handleStartSession, lines 45-63: bind, default duration, active-session check
StartSession(p, u, d, cap) ==
    /\ req[p].pc = "idle"
    /\ Len(sessions) + InFlight({"start_create"}) < cap
    /\ IF \E i \in SessionIds :
            sessions[i].user = u /\ sessions[i].status = SessionStatusActive
       THEN req' = [req EXCEPT ![p] = Done([IdleReq EXCEPT !.user = u], 400)]
       ELSE req' = [req EXCEPT ![p] =
                [IdleReq EXCEPT !.pc = "start_create", !.user = u,
                                !.dur = IF d = 0 THEN DefaultDuration ELSE d]]
    /\ UNCHANGED <<now, sessions, cache, locations, chan, queued, dropped, hist>>
    /\ PipelineUnchanged

\* handleStartSession, lines 72-85: db.Create(&session)
StartCreate(p, ok) ==
    /\ req[p].pc = "start_create"
    /\ LET s == NewSession(Len(sessions) + 1, req[p].user, req[p].dur)
       IN IF ok
          THEN /\ sessions' = Append(sessions, s)
               /\ req' = [req EXCEPT ![p].pc = "start_cache", ![p].sess = <<s>>]
          ELSE /\ req' = [req EXCEPT ![p] = Done(req[p], 500)]
               /\ UNCHANGED sessions
    /\ UNCHANGED <<now, cache, locations, chan, queued, dropped, hist>>
    /\ PipelineUnchanged

\* handleStartSession, lines 87-98: cache the session (a cache failure is
\* ignored), answer 201
StartCache(p, ok) ==
    /\ req[p].pc = "start_cache"
    /\ LET s == req[p].sess[1]
       IN cache' = IF ok THEN CacheSet(s.id, s, s.duration) ELSE cache
    /\ req' = [req EXCEPT ![p] = Done(req[p], 201)]
    /\ UNCHANGED <<now, sessions, locations, chan, queued, dropped, hist>>
    /\ PipelineUnchanged

\* handleStopSession, lines 105-135: read the session of the caller
StopSession(p, u, sid) ==
    /\ req[p].pc = "idle"
    /\ LET r == [IdleReq EXCEPT !.user = u, !.sid = sid]
       IN IF ~(sid \in SessionIds /\ sessions[sid].user = u
                   /\ sessions[sid].tenant = TenantOf(u))
          THEN req' = [req EXCEPT ![p] = Done(r, 404)]
          ELSE IF sessions[sid].status # SessionStatusActive
          THEN req' = [req EXCEPT ![p] = Done(r, 400)]
          ELSE req' = [req EXCEPT ![p] =
                        [r EXCEPT !.pc = "stop_save", !.sess = <<sessions[sid]>>]]
    /\ UNCHANGED <<now, sessions, cache, locations, chan, queued, dropped, hist>>
    /\ PipelineUnchanged

\* handleStopSession, lines 137-143: EndSession and db.Save(&session)
StopSave(p, ok) ==
    /\ req[p].pc = "stop_save"
    /\ LET e == EndSession(req[p].sess[1])
       IN IF ok
          THEN /\ sessions' = [sessions EXCEPT ![req[p].sid] = e]
               /\ req' = [req EXCEPT ![p].pc = "stop_del", ![p].sess = <<e>>]
          ELSE /\ req' = [req EXCEPT ![p] = Done(req[p], 500)]
               /\ UNCHANGED sessions
    /\ UNCHANGED <<now, cache, locations, chan, queued, dropped, hist>>
    /\ PipelineUnchanged

\* handleStopSession, lines 145-153: invalidate the cache entry, answer 200
StopDel(p) ==
    /\ req[p].pc = "stop_del"
    /\ cache' = CacheDel(req[p].sid)
    /\ req' = [req EXCEPT ![p] = Done(req[p], 200)]
    /\ UNCHANGED <<now, sessions, locations, chan, queued, dropped, hist>>
    /\ PipelineUnchanged

\* ------------------------------------------------------ ingestion fast path
\* models.Location row built by handleLocationUpdate, lines 285-294
NewLocation(id, r) ==
    [id |-> id, tenant |-> TenantOf(r.user), session |-> r.sid, user |-> r.user,
     lat |-> r.lat, lon |-> r.lon, ts |-> now]

\* table locations: locations_latitude_check, locations_longitude_check
CoordsLegal(lat, lon) ==
    /\ lat >= -90 /\ lat <= 90
    /\ lon >= -180 /\ lon <= 180

\* LocationEvent of the location service, lines 302-311
NewLocationEvent(loc) ==
    [ID |-> loc.id, TenantID |-> loc.tenant, CognitoUserID |-> loc.user,
     SessionID |-> loc.session, Latitude |-> loc.lat, Longitude |-> loc.lon,
     Timestamp |-> loc.ts, EventType |-> "location_update"]

\* handleLocationUpdate, lines 215-243: bind, then the cache lookup
LocationUpdate(p, u, sid, c, cap) ==
    /\ req[p].pc = "idle"
    /\ Len(locations) + InFlight({"upd_db", "upd_cache", "upd_write"}) < cap
    /\ LET hit == CacheGet(sid)
           r == [IdleReq EXCEPT !.user = u, !.sid = sid,
                                !.lat = c[1], !.lon = c[2]]
       IN IF c[1] = 0 \/ c[2] = 0     \* binding:"required" refuses a zero value
          THEN req' = [req EXCEPT ![p] = Done(r, 400)]
          ELSE IF /\ hit # <<>>
                  /\ hit[1].sess.user = u
                  /\ hit[1].sess.tenant = TenantOf(u)
          THEN req' = [req EXCEPT ![p] =
                        [r EXCEPT !.pc = "upd_write", !.sess = <<hit[1].sess>>]]
          ELSE req' = [req EXCEPT ![p] = [r EXCEPT !.pc = "upd_db"]]
    /\ UNCHANGED <<now, sessions, cache, locations, chan, queued, dropped, hist>>
    /\ PipelineUnchanged

\* a storage lookup by session id and status only
UpdateDbReadAnyOwner(p) ==
    /\ req[p].pc = "upd_db"
    /\ LET r == req[p]
       IN IF /\ r.sid \in SessionIds
             /\ sessions[r.sid].status = SessionStatusActive
          THEN req' = [req EXCEPT ![p].pc = "upd_cache",
                                  ![p].sess = <<sessions[r.sid]>>]
          ELSE req' = [req EXCEPT ![p] = Done(req[p], 404)]
    /\ UNCHANGED <<now, sessions, cache, locations, chan, queued, dropped, hist>>
    /\ PipelineUnchanged

\* handleLocationUpdate, lines 246-254: the storage lookup on a cache miss
UpdateDbRead(p) ==
    /\ req[p].pc = "upd_db"
    /\ LET r == req[p]
       IN IF /\ r.sid \in SessionIds
             /\ sessions[r.sid].user = r.user
             /\ sessions[r.sid].tenant = TenantOf(r.user)
             /\ sessions[r.sid].status = SessionStatusActive
          THEN req' = [req EXCEPT ![p].pc = "upd_cache",
                                  ![p].sess = <<sessions[r.sid]>>]
          ELSE req' = [req EXCEPT ![p] = Done(req[p], 404)]
    /\ UNCHANGED <<now, sessions, cache, locations, chan, queued, dropped, hist>>
    /\ PipelineUnchanged

\* handleLocationUpdate, lines 256-263: cache the session for its remaining TTL
UpdateCachePut(p) ==
    /\ req[p].pc = "upd_cache"
    /\ LET s == req[p].sess[1]
           remainingTTL == s.duration - ElapsedSeconds(s.started_at)
       IN cache' = IF remainingTTL > 0 THEN CacheSet(s.id, s, remainingTTL)
                   ELSE cache
    /\ req' = [req EXCEPT ![p].pc = "upd_write"]
    /\ UNCHANGED <<now, sessions, locations, chan, queued, dropped, hist>>
    /\ PipelineUnchanged

\* an expiry that saves the copy of the session it holds as it is
UpdateWriteKeepStatus(p, ok) ==
    /\ req[p].pc = "upd_write"
    /\ LET r == req[p]
           s == r.sess[1]
           loc == NewLocation(Len(locations) + 1, r)
       IN IF ElapsedSeconds(s.started_at) > s.duration
          THEN /\ sessions' = IF ok THEN [sessions EXCEPT ![s.id] = s]
                              ELSE sessions
               /\ req' = [req EXCEPT ![p].pc = "upd_expire_del"]
               /\ UNCHANGED <<locations, hist>>
          ELSE IF ok /\ CoordsLegal(r.lat, r.lon)
          THEN /\ locations' = Append(locations, loc)
               /\ hist' = [hist EXCEPT !.fixStatus =
                              Append(@, sessions[r.sid].status)]
               /\ req' = [req EXCEPT ![p].pc = "upd_send", ![p].fix = loc.id]
               /\ UNCHANGED sessions
          ELSE /\ req' = [req EXCEPT ![p] = Done(req[p], 500)]
               /\ UNCHANGED <<sessions, locations, hist>>
    /\ UNCHANGED <<now, cache, chan, queued, dropped>>
    /\ PipelineUnchanged

\* handleLocationUpdate, lines 266-299: the expiry check, then either
\* EndSession and db.Save (result ignored) or db.Create(&location)
UpdateWrite(p, ok) ==
    /\ req[p].pc = "upd_write"
    /\ LET r == req[p]
           s == r.sess[1]
           loc == NewLocation(Len(locations) + 1, r)
       IN IF ElapsedSeconds(s.started_at) > s.duration
          THEN /\ sessions' = IF ok THEN [sessions EXCEPT ![s.id] = EndSession(s)]
                              ELSE sessions
               /\ req' = [req EXCEPT ![p].pc = "upd_expire_del"]
               /\ UNCHANGED <<locations, hist>>
          ELSE IF ok /\ CoordsLegal(r.lat, r.lon)
          THEN /\ locations' = Append(locations, loc)
               /\ hist' = [hist EXCEPT !.fixStatus =
                              Append(@, sessions[r.sid].status)]
               /\ req' = [req EXCEPT ![p].pc = "upd_send", ![p].fix = loc.id]
               /\ UNCHANGED sessions
          ELSE /\ req' = [req EXCEPT ![p] = Done(req[p], 500)]
               /\ UNCHANGED <<sessions, locations, hist>>
    /\ UNCHANGED <<now, cache, chan, queued, dropped>>
    /\ PipelineUnchanged

\* handleLocationUpdate, lines 271-276: invalidate the cache, answer 400
UpdateExpireDel(p) ==
    /\ req[p].pc = "upd_expire_del"
    /\ cache' = CacheDel(req[p].sid)
    /\ req' = [req EXCEPT ![p] = Done(req[p], 400)]
    /\ UNCHANGED <<now, sessions, locations, chan, queued, dropped, hist>>
    /\ PipelineUnchanged

\* a send that waits while the channel is full
SendLocationEventBlocking(p) ==
    /\ req[p].pc = "upd_send"
    /\ Len(chan) < QueueCap
    /\ LET event == NewLocationEvent(locations[req[p].fix])
       IN /\ chan' = Append(chan, event)
          /\ queued' = queued + 1
          /\ hist' = [hist EXCEPT !.emitted = @ \cup {event.ID}]
          /\ req' = [req EXCEPT ![p] = Done(req[p], 200)]
    /\ UNCHANGED <<now, sessions, cache, locations, dropped>>
    /\ PipelineUnchanged

\* KafkaProducer.SendLocationEvent as called at handleLocationUpdate line 313:
\* a non-blocking send, counted as queued or as dropped; the answer is 200
SendLocationEvent(p) ==
    /\ req[p].pc = "upd_send"
    /\ LET event == NewLocationEvent(locations[req[p].fix])
       IN IF shutdown = "closed"      \* send on a closed channel panics
          THEN /\ hist' = [hist EXCEPT !.panics = @ + 1]
               /\ req' = [req EXCEPT ![p] = Done(req[p], 500)]
               /\ UNCHANGED <<chan, queued, dropped>>
          ELSE IF Len(chan) < QueueCap
          THEN /\ chan' = Append(chan, event)
               /\ queued' = queued + 1
               /\ hist' = [hist EXCEPT !.emitted = @ \cup {event.ID}]
               /\ req' = [req EXCEPT ![p] = Done(req[p], 200)]
               /\ UNCHANGED dropped
          ELSE /\ dropped' = dropped + 1
               /\ hist' = [hist EXCEPT !.emitted = @ \cup {event.ID},
                                       !.droppedIds = @ \cup {event.ID}]
               /\ UNCHANGED <<chan, queued>>
               /\ req' = [req EXCEPT ![p] = Done(req[p], 200)]
    /\ UNCHANGED <<now, sessions, cache, locations>>
    /\ PipelineUnchanged

\* --------------------------------------------------------------- read path
\* the orders in which a query may return the rows S
RowOrders(S) ==
    {b \in [1..Cardinality(S) -> S] :
        \A i, j \in 1..Cardinality(S) : i # j => b[i] # b[j]}

\* Order("created_at DESC"): rows of equal time in any order
NewestFirst(S) ==
    {b \in RowOrders(S) :
        \A i \in 1..(Len(b) - 1) : b[i].started_at >= b[i + 1].started_at}

\* Order("timestamp ASC"): rows of equal time in any order
OldestFirst(S) ==
    {b \in RowOrders(S) : \A i \in 1..(Len(b) - 1) : b[i].ts <= b[i + 1].ts}

\* Where("id = ? AND cognito_user_id = ? AND tenant_id = ?").First
OwnedSession(u, sid) ==
    {r \in Range(sessions) :
        r.id = sid /\ r.user = u /\ r.tenant = TenantOf(u)}

\* the answer of a handler that read rows
Answer(p, u, sid, code, rows) ==
    [IdleReq EXCEPT !.pc = "done", !.user = u, !.sid = sid, !.resp = code,
                    !.body = rows]

\* handleGetSession, lines 158-188
GetSession(p, u, sid, dbOk) ==
    /\ req[p].pc = "idle"
    /\ req' = [req EXCEPT ![p] =
            IF ~dbOk THEN Answer(p, u, sid, 500, <<>>)
            ELSE IF OwnedSession(u, sid) = {} THEN Answer(p, u, sid, 404, <<>>)
            ELSE Answer(p, u, sid, 200,
                        <<CHOOSE r \in OwnedSession(u, sid) : TRUE>>)]
    /\ UNCHANGED <<now, sessions, cache, locations, chan, queued, dropped, hist>>
    /\ PipelineUnchanged

\* handleGetUserSessions, lines 191-209
GetUserSessions(p, u, dbOk) ==
    /\ req[p].pc = "idle"
    /\ LET rows == {r \in Range(sessions) :
                       r.user = u /\ r.tenant = TenantOf(u)}
       IN \E b \in NewestFirst(rows) :
            req' = [req EXCEPT ![p] =
                IF dbOk THEN Answer(p, u, NoId, 200, b)
                ELSE Answer(p, u, NoId, 500, <<>>)]
    /\ UNCHANGED <<now, sessions, cache, locations, chan, queued, dropped, hist>>
    /\ PipelineUnchanged

\* handleGetSessionLocations, lines 323-349: the session of the caller
GetSessionLocations(p, u, sid, dbOk) ==
    /\ req[p].pc = "idle"
    /\ req' = [req EXCEPT ![p] =
            IF ~dbOk THEN Answer(p, u, sid, 500, <<>>)
            ELSE IF OwnedSession(u, sid) = {} THEN Answer(p, u, sid, 404, <<>>)
            ELSE [IdleReq EXCEPT !.pc = "loc_read", !.user = u, !.sid = sid]]
    /\ UNCHANGED <<now, sessions, cache, locations, chan, queued, dropped, hist>>
    /\ PipelineUnchanged

\* a locations query that filters on the session only
LocationsReadAnyTenant(p, dbOk) ==
    /\ req[p].pc = "loc_read"
    /\ LET rows == {l \in Range(locations) : l.session = req[p].sid}
       IN \E b \in OldestFirst(rows) :
            req' = [req EXCEPT ![p] =
                IF dbOk THEN Answer(p, req[p].user, req[p].sid, 200, b)
                ELSE Answer(p, req[p].user, req[p].sid, 500, <<>>)]
    /\ UNCHANGED <<now, sessions, cache, locations, chan, queued, dropped, hist>>
    /\ PipelineUnchanged

\* handleGetSessionLocations, lines 351-358:
\* Where("session_id = ? AND tenant_id = ?").Order("timestamp ASC")
LocationsRead(p, dbOk) ==
    /\ req[p].pc = "loc_read"
    /\ LET rows == {l \in Range(locations) :
                       /\ l.session = req[p].sid
                       /\ l.tenant = TenantOf(req[p].user)}
       IN \E b \in OldestFirst(rows) :
            req' = [req EXCEPT ![p] =
                IF dbOk THEN Answer(p, req[p].user, req[p].sid, 200, b)
                ELSE Answer(p, req[p].user, req[p].sid, 500, <<>>)]
    /\ UNCHANGED <<now, sessions, cache, locations, chan, queued, dropped, hist>>
    /\ PipelineUnchanged

\* the handler returns: the goroutine is free for the next request
Return(p) ==
    /\ req[p].pc = "done"
    /\ req' = [req EXCEPT ![p] = IdleReq]
    /\ UNCHANGED <<now, sessions, cache, locations, chan, queued, dropped, hist>>
    /\ PipelineUnchanged

\* ------------------------------------------------------ producer worker pool
\* what no producer or consumer step changes
SessionsUnchanged ==
    /\ UNCHANGED <<sessions, cache, locations, req>>
    /\ IdentityUnchanged

\* json.Marshal of the location service's LocationEvent (its json tags)
Marshal(e) ==
    [id |-> e.ID, tenant_id |-> e.TenantID,
     cognito_cognito_user_id |-> e.CognitoUserID, session_id |-> e.SessionID,
     latitude |-> e.Latitude, longitude |-> e.Longitude,
     timestamp |-> e.Timestamp, event_type |-> e.EventType]

\* a json key of the message, or the zero value when the key is absent
Field(m, k, zero) == IF k \in DOMAIN m THEN m[k] ELSE zero

\* json.Unmarshal into the streaming service's LocationEvent (its json tags)
Unmarshal(m) ==
    [ID |-> Field(m, "id", NoId), TenantID |-> Field(m, "tenant_id", ""),
     UserID |-> Field(m, "user_id", ""),
     SessionID |-> Field(m, "session_id", NoId),
     Latitude |-> Field(m, "latitude", 0), Longitude |-> Field(m, "longitude", 0),
     Timestamp |-> Field(m, "timestamp", NoTime),
     EventType |-> Field(m, "event_type", "")]

\* locationEventWorker, line 75: the select takes an event from the channel
WorkerReceive(w) ==
    /\ worker[w].pc = "recv"
    /\ chan # <<>>
    /\ worker' = [worker EXCEPT ![w] = [pc |-> "send", event |-> <<Head(chan)>>]]
    /\ chan' = Tail(chan)
    /\ UNCHANGED <<now, queued, dropped, shutdown, bus, consumer, dlq, sweeper,
                   postLog, lastPost, hist>>
    /\ SessionsUnchanged

\* locationEventWorker, lines 76-78: sendLocationEventSync; a failed write is
\* printed and the event is gone
WorkerSend(w, ok) ==
    /\ worker[w].pc = "send"
    /\ bus' = IF ok THEN Append(bus, Marshal(worker[w].event[1])) ELSE bus
    /\ worker' = [worker EXCEPT ![w] = [pc |-> "recv", event |-> <<>>]]
    /\ UNCHANGED <<now, chan, queued, dropped, shutdown, consumer, dlq, sweeper,
                   postLog, lastPost, hist>>
    /\ SessionsUnchanged

\* a worker that returns on the signal whatever it is doing, its write abandoned
WorkerShutdownAbandon(w) ==
    /\ worker[w].pc # "exited"
    /\ shutdown # "running"
    /\ worker' = [worker EXCEPT ![w] = [pc |-> "exited", event |-> <<>>]]
    /\ UNCHANGED <<now, chan, queued, dropped, shutdown, bus, consumer, dlq,
                   sweeper, postLog, lastPost, hist>>
    /\ SessionsUnchanged

\* locationEventWorker, lines 79-81: the select takes the shutdown signal
WorkerShutdown(w) ==
    /\ worker[w].pc = "recv"
    /\ shutdown # "running"
    /\ worker' = [worker EXCEPT ![w] = [pc |-> "exited", event |-> <<>>]]
    /\ UNCHANGED <<now, chan, queued, dropped, shutdown, bus, consumer, dlq,
                   sweeper, postLog, lastPost, hist>>
    /\ SessionsUnchanged

\* KafkaProducer.Close, line 202: close(kp.shutdownChan)
CloseSignal ==
    /\ shutdown = "running"
    /\ shutdown' = "signalled"
    /\ UNCHANGED <<now, chan, queued, dropped, worker, bus, consumer, dlq,
                   sweeper, postLog, lastPost, hist>>
    /\ SessionsUnchanged

\* KafkaProducer.Close, lines 205-209: wg.Wait returns, the channels are closed
CloseFinish ==
    /\ shutdown = "signalled"
    /\ \A w \in Workers : worker[w].pc = "exited"
    /\ shutdown' = "closed"
    /\ UNCHANGED <<now, chan, queued, dropped, worker, bus, consumer, dlq,
                   sweeper, postLog, lastPost, hist>>
    /\ SessionsUnchanged

\* ------------------------------------------------------------ bus consumer
\* status column of a session in storage; "" when there is no such row
SessionStatusOf(sid) ==
    IF sid \in SessionIds THEN sessions[sid].status ELSE ""

\* the external endpoint's record of a POST
PostRecord(by, row, event, late) ==
    [by |-> by, row |-> row, id |-> event.ID,
     sess |-> SessionStatusOf(event.SessionID), late |-> late]

\* ConsumeLocationUpdates, lines 169-188: ReadMessage and json.Unmarshal
ConsumerRead ==
    /\ consumer.pc = "read"
    /\ bus # <<>>
    /\ consumer' = [pc |-> "post", event |-> <<Unmarshal(Head(bus))>>]
    /\ bus' = Tail(bus)
    /\ UNCHANGED <<now, chan, queued, dropped, worker, shutdown, dlq, sweeper,
                   postLog, lastPost, hist>>
    /\ SessionsUnchanged

\* ConsumeLocationUpdates, line 191: ThirdPartyClient.SendLocationUpdate
ConsumerPost(ok) ==
    /\ consumer.pc = "post"
    /\ LET e == consumer.event[1]
       IN /\ postLog' = postLog \cup {PostRecord("consumer", NoId, e, FALSE)}
          /\ lastPost' = <<e>>
          /\ hist' = IF ok THEN [hist EXCEPT !.delivered = @ \cup {e.ID}]
                     ELSE hist
    /\ consumer' = IF ok THEN [pc |-> "read", event |-> <<>>]
                   ELSE [consumer EXCEPT !.pc = "store"]
    /\ UNCHANGED <<now, chan, queued, dropped, worker, shutdown, bus, dlq,
                   sweeper>>
    /\ SessionsUnchanged

\* the FailedLocationUpdate row built by storeFailedUpdate, lines 221-251
FailedRow(id, e) ==
    [id |-> id, original_event_id |-> e.ID, tenant_id |-> e.TenantID,
     user_id |-> e.UserID, session_id |-> e.SessionID,
     latitude |-> e.Latitude, longitude |-> e.Longitude,
     error_message |-> "post failed", retry_count |-> 0, status |-> "pending",
     next_retry_at |-> now + BaseDelay, created_at |-> now, updated_at |-> now,
     resolved_at |-> NoTime]

\* storeFailedUpdate, lines 220-262: kc.db.Create(&failedUpdate); a storage
\* error is logged and the loop goes on
StoreFailedUpdate(dbOk) ==
    /\ consumer.pc = "store"
    /\ LET row == FailedRow(Len(dlq) + 1, consumer.event[1])
       IN IF dbOk
          THEN /\ dlq' = Append(dlq, row)
               /\ hist' = [hist EXCEPT !.delays =
                     Append(@, <<row.next_retry_at - row.updated_at>>)]
          ELSE UNCHANGED <<dlq, hist>>
    /\ consumer' = [pc |-> "read", event |-> <<>>]
    /\ UNCHANGED <<now, chan, queued, dropped, worker, shutdown, bus, sweeper,
                   postLog, lastPost>>
    /\ SessionsUnchanged

\* ------------------------------------------------------------- retry sweep
DlqIds == 1..Len(dlq)

\* the WHERE clause of ProcessFailedUpdates, line 120
Due(r) == r.status = "pending" /\ r.next_retry_at <= now

\* an ascending order: oldest first
NewerAscending(a, b) ==
    \/ a.created_at < b.created_at
    \/ a.created_at = b.created_at /\ a.id < b.id

\* ORDER BY created_at DESC; rows of one tick are told apart by insertion order
Newer(a, b) ==
    \/ a.created_at > b.created_at
    \/ a.created_at = b.created_at /\ a.id > b.id

RECURSIVE OrderDesc(_)
OrderDesc(rows) ==
    IF rows = {} THEN <<>>
    ELSE LET top == CHOOSE a \in rows : \A b \in rows \ {a} : Newer(a, b)
         IN <<top>> \o OrderDesc(rows \ {top})

\* Limit(rc.batchSize)
Limit(seq, n) == SubSeq(seq, 1, IF Len(seq) < n THEN Len(seq) ELSE n)

\* the batch of ProcessFailedUpdates, lines 119-123
SelectBatch == Limit(OrderDesc({dlq[i] : i \in {j \in DlqIds : Due(dlq[j])}}), batchSize)

\* a gate that stops only a session that is missing
SessionGateMissingOnly(status) == status = ""

\* retryFailedUpdate, line 165: the session-gating test on the status read
SessionGate(status) == status # SessionStatusActive

\* RetryConsumer.markPermanentlyFailed
MarkPermanentlyFailed(f, reason) ==
    [f EXCEPT !.status = "permanently_failed", !.updated_at = now,
              !.resolved_at = now, !.error_message = reason]

\* RetryConsumer.markResolved
MarkResolved(f) ==
    [f EXCEPT !.status = "resolved", !.updated_at = now, !.resolved_at = now]

\* a backoff of base x 2^retry_count
UpdateRetryStatusDoubled(f) ==
    LET n == f.retry_count + 1
    IN IF n >= maxRetries
       THEN [f EXCEPT !.retry_count = n, !.updated_at = now,
                      !.status = "permanently_failed", !.resolved_at = now,
                      !.error_message = "max retries reached"]
       ELSE [f EXCEPT !.retry_count = n, !.updated_at = now,
                      !.next_retry_at = now + BaseDelay * Pow2(n),
                      !.error_message = "post failed"]

\* RetryConsumer.updateRetryStatus
UpdateRetryStatus(f) ==
    LET n == f.retry_count + 1
    IN IF n >= maxRetries
       THEN [f EXCEPT !.retry_count = n, !.updated_at = now,
                      !.status = "permanently_failed", !.resolved_at = now,
                      !.error_message = "max retries reached"]
       ELSE [f EXCEPT !.retry_count = n, !.updated_at = now,
                      !.next_retry_at = now + BaseDelay * Pow2(n - 1),
                      !.error_message = "post failed"]

\* the LocationEvent rebuilt by retryFailedUpdate, lines 173-192
RetryEvent(f) ==
    [ID |-> f.original_event_id, TenantID |-> f.tenant_id, UserID |-> f.user_id,
     SessionID |-> f.session_id, Latitude |-> f.latitude,
     Longitude |-> f.longitude, Timestamp |-> now,
     EventType |-> "location_update"]

\* db.Save(&failed): every column of the row is written from the copy
Save(f) == [dlq EXCEPT ![f.id] = f]

\* the sweeper after the current row: the next row of the batch, or the sleep
NextRow(s) ==
    LET rest == Tail(sweeper[s].batch)
    IN [sweeper[s] EXCEPT !.batch = rest,
                          !.pc = IF rest = <<>> THEN "sleep" ELSE "check"]

SweepUnchanged ==
    UNCHANGED <<now, chan, queued, dropped, worker, shutdown, bus, consumer>>

\* ProcessFailedUpdates, lines 117-137: select the due rows
SweepSelect(s) ==
    /\ sweeper[s].pc = "sleep"
    /\ SelectBatch # <<>>
    /\ sweeper' = [sweeper EXCEPT ![s] =
            [pc |-> "check", batch |-> SelectBatch, ok |-> FALSE,
             seen |-> hist.gated]]
    /\ UNCHANGED <<dlq, postLog, lastPost, hist>>
    /\ SweepUnchanged
    /\ SessionsUnchanged

\* retryFailedUpdate, lines 151-170: read the session status; an error or a
\* status other than active marks the row permanently failed
RetryCheck(s, readOk) ==
    /\ sweeper[s].pc = "check"
    /\ LET f == Head(sweeper[s].batch)
           status == SessionStatusOf(f.session_id)
       IN IF f.session_id # NoId /\ ~readOk
          THEN /\ dlq' = Save(MarkPermanentlyFailed(f, "session not found or inactive"))
               /\ hist' = IF status = SessionStatusActive
                          THEN [hist EXCEPT !.gatedOnError = @ \cup {f.id}]
                          ELSE [hist EXCEPT !.gated = @ \cup {f.id}]
               /\ sweeper' = [sweeper EXCEPT ![s] = NextRow(s)]
          ELSE IF f.session_id # NoId /\ SessionGate(status)
          THEN /\ dlq' = Save(MarkPermanentlyFailed(f, "session inactive"))
               /\ hist' = [hist EXCEPT !.gated = @ \cup {f.id}]
               /\ sweeper' = [sweeper EXCEPT ![s] = NextRow(s)]
          ELSE /\ sweeper' = [sweeper EXCEPT ![s].pc = "post"]
               /\ UNCHANGED <<dlq, hist>>
    /\ UNCHANGED <<postLog, lastPost>>
    /\ SweepUnchanged
    /\ SessionsUnchanged

\* retryFailedUpdate, line 195: sendToThirdParty
RetryPost(s, ok) ==
    /\ sweeper[s].pc = "post"
    /\ LET f == Head(sweeper[s].batch)
           e == RetryEvent(f)
       IN /\ postLog' = postLog \cup
                {PostRecord("retry", f.id, e, f.id \in sweeper[s].seen)}
          /\ lastPost' = <<e>>
    /\ sweeper' = [sweeper EXCEPT ![s].pc = "save", ![s].ok = ok]
    /\ UNCHANGED <<dlq, hist>>
    /\ SweepUnchanged
    /\ SessionsUnchanged

\* retryFailedUpdate, lines 195-201: updateRetryStatus or markResolved
RetrySave(s) ==
    /\ sweeper[s].pc = "save"
    /\ LET f == Head(sweeper[s].batch)
           g == IF sweeper[s].ok THEN MarkResolved(f) ELSE UpdateRetryStatus(f)
       IN /\ dlq' = Save(g)
          /\ hist' = IF g.status = "pending"
                     THEN [hist EXCEPT !.delays[f.id] =
                              Append(@, g.next_retry_at - g.updated_at)]
                     ELSE IF g.retry_count >= maxRetries
                     THEN [hist EXCEPT !.maxed = @ \cup {f.id}]
                     ELSE hist
    /\ sweeper' = [sweeper EXCEPT ![s] = NextRow(s)]
    /\ UNCHANGED <<postLog, lastPost>>
    /\ SweepUnchanged
    /\ SessionsUnchanged

\* retry-consumer main, lines 345-347: the only end of the instance is
\* log.Fatal, which exits the process wherever ProcessFailedUpdates stands;
\* the loop of ProcessFailedUpdates (lines 117-147) reads no signal and has
\* no return
ProcessExit(s) ==
    /\ sweeper[s].pc # "exited"
    /\ sweeper' = [sweeper EXCEPT ![s].pc = "exited"]
    /\ UNCHANGED <<dlq, postLog, lastPost, hist>>
    /\ SweepUnchanged
    /\ SessionsUnchanged

\* ---------------------------------------------------------------- clock
Tick(bound) ==
    /\ now < bound
    /\ now' = now + 1
    /\ UNCHANGED <<sessions, cache, locations, req, chan, queued, dropped,
                   worker, shutdown, bus, consumer, dlq, sweeper, postLog,
                   lastPost, hist>>
    /\ IdentityUnchanged

\* time passes until the next pending row comes due
Elapse(bound) ==
    LET waiting == {dlq[i].next_retry_at : i \in {j \in DlqIds :
                        dlq[j].status = "pending" /\ dlq[j].next_retry_at > now}}
    IN /\ waiting # {}
       /\ now' = CHOOSE t \in waiting : \A u \in waiting : t <= u
       /\ now' <= bound
       /\ UNCHANGED <<sessions, cache, locations, req, chan, queued, dropped,
                      worker, shutdown, bus, consumer, dlq, sweeper, postLog,
                      lastPost, hist>>
       /\ IdentityUnchanged

\* ------------------------------------------------------- specifications
\* ------------------------------------------------------ token sessions
Tokens == {"t1"}
Bearers == Tokens \cup {"short"}
AuthProcs == {"a1", "a2"}
Touchers == 1..MaxTouchers
TtlInputs == {60, 3600}

IdleAuth == [pc |-> "idle", token |-> "", resp |-> 0]
IdleToucher == [pc |-> "none", token |-> "", sess |-> <<>>]

\* the pool of the middleware (NewAuthMiddleware calls ConnectDatabase) and
\* the pool of the handlers (main calls ConnectDatabase)
MiddlewareConns == {"m1", "m2"}
HandlerConns == {"h1", "h2"}
Conns == MiddlewareConns \cup HandlerConns
CtxProcs == {"x1", "x2", "x3"}
Unset == ""

FreeConn == [var |-> Unset, holder |-> ""]
IdleCtx == [pc |-> "idle", user |-> "", seen |-> <<>>]

Callers == {"c1", "c2"}
StateClosed == "closed"
StateOpen == "open"
StateHalfOpen == "half-open"

IdleCall ==
    [pc |-> "idle", ok |-> FALSE, err |-> "", kind |-> "", resp |-> 0,
     probe |-> FALSE, phase |-> "", idp |-> FALSE, row |-> FALSE]

\* utils.NewCircuitBreaker(5, 30*time.Second)
NewCircuitBreaker ==
    [state |-> StateClosed, failures |-> 0, lastFailure |-> NoTime,
     halfOpenReq |-> 0]

InitIdentity ==
    /\ tokenStore = [t \in Tokens |-> <<>>]
    /\ authReq = [p \in AuthProcs |-> IdleAuth]
    /\ toucher = [k \in Touchers |-> IdleToucher]
    /\ revoked = {}
    /\ authLog = {}
    /\ breaker = NewCircuitBreaker
    /\ call = [c \in Callers |-> IdleCall]
    /\ clock = 0
    /\ streak = 0
    /\ dbconn = [k \in Conns |-> FreeConn]
    /\ ctxReq = [p \in CtxProcs |-> IdleCtx]

\* what no step of the auth service changes
LocationUnchanged ==
    UNCHANGED <<sessions, cache, locations, req, chan, queued, dropped, worker,
                shutdown, bus, consumer, dlq, sweeper, postLog, lastPost, hist>>

\* what no token session function changes
ServiceUnchanged == LocationUnchanged /\ BreakerUnchanged /\ PoolUnchanged

\* utils.GetTokenSession: the stored session, or <<>> for "session not found"
\* and "session expired"; the key carries the TTL of ExpiresAt
GetTokenSession(t) ==
    IF tokenStore[t] # <<>> /\ now < tokenStore[t][1].ExpiresAt
    THEN tokenStore[t] ELSE <<>>

\* handleLogin, lines 143-144: utils.CreateTokenSession with the TTL of the
\* identity provider; a token is issued once
Login(t, ttl) ==
    /\ tokenStore[t] = <<>>
    /\ t \notin revoked
    /\ tokenStore' = [tokenStore EXCEPT ![t] =
            <<[CreatedAt |-> now, LastUsedAt |-> now,
               ExpiresAt |-> now + (ttl \div SecondsPerTick)]>>]
    /\ UNCHANGED <<now, authReq, toucher, revoked, authLog>>
    /\ ServiceUnchanged

\* the characters of a bearer token
TokenChars(t) ==
    IF t \in Tokens THEN [i \in 1..TokenLen |-> (i * i) % 16]
    ELSE [i \in 1..ShortLen |-> 15]

\* generateTokenHash: hex of the SHA-256 digest, here a digest of HashLen hex
\* digits in which every digit depends on every character
RECURSIVE Mix(_, _, _)
Mix(chars, i, j) ==
    IF i > Len(chars) THEN j
    ELSE Mix(chars, i + 1, (31 * j + chars[i] + i) % 16)

generateTokenHash(chars) == [j \in 1..HashLen |-> Mix(chars, 1, j)]

\* the Redis key of a token session: "token:session:" + hash
TokenKey(t) == generateTokenHash(TokenChars(t))

\* accessToken[:20]
TokenPrefix(chars) == SubSeq(chars, 1, LogPrefixLen)

\* AuthMiddleware.RequireAuth, lines 37-80: log the start of the token (a
\* token shorter than the slice panics, and gin's Recovery answers 500), look
\* the session up, start the background update of LastUsedAt, hand over to
\* the handler
RequireAuth(p, t) ==
    /\ authReq[p].pc = "idle"
    /\ IF Len(TokenChars(t)) < LogPrefixLen
       THEN /\ authReq' = [authReq EXCEPT ![p] =
                    [pc |-> "done", token |-> t, resp |-> 500]]
            /\ UNCHANGED <<toucher, authLog>>
       ELSE IF GetTokenSession(t) = <<>>
       THEN /\ authReq' = [authReq EXCEPT ![p] =
                    [pc |-> "done", token |-> t, resp |-> 401]]
            /\ authLog' = authLog \cup
                    {[line |-> "Looking up session for token",
                      text |-> TokenPrefix(TokenChars(t))],
                     [line |-> "Session lookup failed", text |-> <<>>]}
            /\ UNCHANGED toucher
       ELSE \E k \in Touchers :
            /\ toucher[k].pc = "none"
            /\ toucher' = [toucher EXCEPT ![k] =
                    [pc |-> "get", token |-> t, sess |-> <<>>]]
            /\ authReq' = [authReq EXCEPT ![p] =
                    [pc |-> "handler", token |-> t, resp |-> 0]]
            /\ authLog' = authLog \cup
                    {[line |-> "Looking up session for token",
                      text |-> TokenPrefix(TokenChars(t))],
                     [line |-> "Session found", text |-> <<>>]}
    /\ UNCHANGED <<now, tokenStore, revoked>>
    /\ ServiceUnchanged

\* UpdateTokenSessionLastUsed, lines 192-199: read the session, stamp it
TouchGet(k) ==
    /\ toucher[k].pc = "get"
    /\ toucher' = [toucher EXCEPT ![k] =
            IF GetTokenSession(toucher[k].token) = <<>> THEN IdleToucher
            ELSE [pc |-> "set", token |-> toucher[k].token,
                  sess |-> <<[GetTokenSession(toucher[k].token)[1]
                                EXCEPT !.LastUsedAt = now]>>]]
    /\ UNCHANGED <<now, tokenStore, authReq, revoked, authLog>>
    /\ ServiceUnchanged

\* UpdateTokenSessionLastUsed, lines 207-213: write it back with the remaining
\* time to live
TouchSet(k) ==
    /\ toucher[k].pc = "set"
    /\ tokenStore' =
            IF toucher[k].sess[1].ExpiresAt - now <= 0 THEN tokenStore
            ELSE [tokenStore EXCEPT ![toucher[k].token] = toucher[k].sess]
    /\ toucher' = [toucher EXCEPT ![k] = IdleToucher]
    /\ UNCHANGED <<now, authReq, revoked, authLog>>
    /\ ServiceUnchanged

\* utils.RevokeTokenSession, lines 216-231, as handleLogout and
\* handleRevokeSession call it: delete the key, return
RevokeTokenSession(t) ==
    /\ t \notin revoked
    /\ tokenStore' = [tokenStore EXCEPT ![t] = <<>>]
    /\ revoked' = revoked \cup {t}
    /\ UNCHANGED <<now, authReq, toucher, authLog>>
    /\ ServiceUnchanged

\* c.Next: the handler behind the middleware answers
AuthHandler(p) ==
    /\ authReq[p].pc = "handler"
    /\ authReq' = [authReq EXCEPT ![p].pc = "done", ![p].resp = 200]
    /\ UNCHANGED <<now, tokenStore, toucher, revoked, authLog>>
    /\ ServiceUnchanged

\* the request is over: the goroutine is free for the next one
AuthReturn(p) ==
    /\ authReq[p].pc = "done"
    /\ authReq' = [authReq EXCEPT ![p] = IdleAuth]
    /\ UNCHANGED <<now, tokenStore, toucher, revoked, authLog>>
    /\ ServiceUnchanged

\* ------------------------------------------------------- circuit breaker
\* what no step of CircuitBreaker.Call changes
CallUnchanged ==
    UNCHANGED now /\ LocationUnchanged /\ TokensUnchanged /\ PoolUnchanged

\* CircuitBreaker.Call, lines 53-75, under the mutex: open becomes half-open
\* once more than resetTimeout has passed since lastFailure, else the call is
\* refused; half-open admits halfOpenMax calls
CallEnter(c) ==
    /\ call[c].pc = "idle"
    /\ LET expired == clock - breaker.lastFailure > resetTimeout
           b1 == IF breaker.state = StateOpen /\ expired
                 THEN [breaker EXCEPT !.state = StateHalfOpen, !.halfOpenReq = 0]
                 ELSE breaker
       IN IF breaker.state = StateOpen /\ ~expired
          THEN /\ call' = [call EXCEPT ![c].pc = "done",
                                        ![c].err = "ErrCircuitOpen"]
               /\ UNCHANGED breaker
          ELSE IF b1.state = StateHalfOpen /\ b1.halfOpenReq >= halfOpenMax
          THEN /\ call' = [call EXCEPT ![c].pc = "done",
                                        ![c].err = "ErrTooManyRequests"]
               /\ breaker' = b1
          ELSE /\ call' = [call EXCEPT ![c].pc = "fn",
                                        ![c].probe = (b1.state = StateHalfOpen)]
               /\ breaker' = IF b1.state = StateHalfOpen
                              THEN [b1 EXCEPT !.halfOpenReq = @ + 1] ELSE b1
    /\ UNCHANGED <<clock, streak>>
    /\ CallUnchanged

\* CircuitBreaker.Call, line 78: fn() calls the identity provider
CallFn(c, ok) ==
    /\ call[c].pc = "fn"
    /\ call' = [call EXCEPT ![c].pc = "record", ![c].ok = ok,
                             ![c].idp = IF call[c].kind = "register" /\ ok
                                        THEN call[c].phase # "compensate"
                                        ELSE @]
    /\ UNCHANGED <<breaker, clock, streak>>
    /\ CallUnchanged

\* a breaker that opens only above maxFailures
onFailureAbove(b) ==
    LET f == [b EXCEPT !.failures = @ + 1, !.lastFailure = clock]
    IN IF f.state = StateHalfOpen
       THEN [f EXCEPT !.state = StateOpen, !.failures = maxFailures]
       ELSE IF f.failures > maxFailures THEN [f EXCEPT !.state = StateOpen]
       ELSE f

\* CircuitBreaker.onFailure
onFailure(b) ==
    LET f == [b EXCEPT !.failures = @ + 1, !.lastFailure = clock]
    IN IF f.state = StateHalfOpen
       THEN [f EXCEPT !.state = StateOpen, !.failures = maxFailures]
       ELSE IF f.failures >= maxFailures THEN [f EXCEPT !.state = StateOpen]
       ELSE f

\* CircuitBreaker.onSuccess
onSuccess(b) ==
    IF b.state = StateHalfOpen
    THEN [b EXCEPT !.state = StateClosed, !.failures = 0, !.halfOpenReq = 0]
    ELSE IF b.state = StateClosed THEN [b EXCEPT !.failures = 0]
    ELSE b

\* CircuitBreaker.Call, lines 80-89, under the mutex: record the outcome
CallRecord(c) ==
    /\ call[c].pc = "record"
    /\ breaker' = IF call[c].ok THEN onSuccess(breaker) ELSE onFailure(breaker)
    /\ streak' = IF call[c].ok THEN 0
                 ELSE IF streak < maxFailures THEN streak + 1 ELSE streak
    /\ call' = [call EXCEPT ![c].pc = "done",
                             ![c].err = IF call[c].ok THEN ""
                                        ELSE "provider error"]
    /\ UNCHANGED clock
    /\ CallUnchanged

\* Call has returned to the handler
CallReturn(c) ==
    /\ call[c].pc = "done"
    /\ call' = [call EXCEPT ![c] = IdleCall]
    /\ UNCHANGED <<breaker, clock, streak>>
    /\ CallUnchanged

\* handleLogin, lines 86-111, and handleRegister up to line 254: the request
\* is bound and the provider input built
HandlerStart(c, kind) ==
    /\ call[c].pc = "idle"
    /\ call[c].kind = ""
    /\ call' = [call EXCEPT ![c].kind = kind]
    /\ UNCHANGED <<breaker, clock, streak>>
    /\ CallUnchanged

\* handleLogin line 113, handleRegister line 256: circuitBreaker.Call
HandlerCall(c) ==
    /\ call[c].kind # ""
    /\ CallEnter(c)

\* the HTTP status a handler answers for the error Call returned:
\* handleLogin lines 119-126, handleRegister lines 261-269
StatusOf(kind, err) ==
    IF err = "" THEN IF kind = "login" THEN 200 ELSE 201
    ELSE IF err = "ErrCircuitOpen" THEN 503
    ELSE IF kind = "login" THEN 401
    ELSE 400

HandlerRespond(c) ==
    /\ call[c].pc = "done"
    /\ call[c].kind # ""
    /\ call' = [call EXCEPT ![c].pc = "answered",
                             ![c].resp = StatusOf(call[c].kind, call[c].err)]
    /\ UNCHANGED <<breaker, clock, streak>>
    /\ CallUnchanged

\* the handler has returned
HandlerReturn(c) ==
    /\ call[c].pc = "answered"
    /\ call' = [call EXCEPT ![c] = IdleCall]
    /\ UNCHANGED <<breaker, clock, streak>>
    /\ CallUnchanged

\* handleRegister, lines 262-270: Call returned an error for the sign-up
RegisterRefused(c) ==
    /\ call[c].kind = "register"
    /\ call[c].err # ""
    /\ call[c].phase = ""
    /\ HandlerRespond(c)

\* handleRegister, lines 273-304: the sign-up succeeded; tx.Create and
\* tx.Commit either both succeed (201) or the handler turns to the
\* compensating delete, which it passes to circuitBreaker.Call
RegisterCreate(c, ok) ==
    /\ call[c].kind = "register"
    /\ call[c].pc = "done"
    /\ call[c].err = ""
    /\ call[c].phase = ""
    /\ call' = IF ok
               THEN [call EXCEPT ![c].pc = "answered", ![c].row = TRUE,
                                 ![c].resp = 201]
               ELSE [call EXCEPT ![c].pc = "idle", ![c].phase = "compensate",
                                 ![c].probe = FALSE]
    /\ UNCHANGED <<breaker, clock, streak>>
    /\ CallUnchanged

\* handleRegister, lines 282-291 and 302-303: whatever the compensating Call
\* returned, the answer is 500
RegisterCompensated(c) ==
    /\ call[c].kind = "register"
    /\ call[c].pc = "done"
    /\ call[c].phase = "compensate"
    /\ call' = [call EXCEPT ![c].pc = "answered", ![c].resp = 500]
    /\ UNCHANGED <<breaker, clock, streak>>
    /\ CallUnchanged

\* time passes in the auth service
ClockTick(bound) ==
    /\ clock + ClockStep <= bound
    /\ clock' = clock + ClockStep
    /\ UNCHANGED <<breaker, call, streak>>
    /\ CallUnchanged

\* ---------------------------------------------------------- tenant context
\* what no statement on a pooled connection changes
StatementUnchanged ==
    UNCHANGED now /\ LocationUnchanged /\ TokensUnchanged /\ BreakerUnchanged

\* RequireAuth, line 77: am.db.Exec("SELECT set_tenant_context(?)") takes a
\* free connection of the middleware's pool; the statement runs in its own
\* transaction, in which set_config(..., true) sets the variable
SetTenantContext(p, u, k) ==
    /\ ctxReq[p].pc = "idle"
    /\ k \in MiddlewareConns
    /\ dbconn[k].holder = ""
    /\ dbconn' = [dbconn EXCEPT ![k] = [var |-> TenantOf(u), holder |-> p]]
    /\ ctxReq' = [ctxReq EXCEPT ![p] = [IdleCtx EXCEPT !.pc = "exec", !.user = u]]
    /\ StatementUnchanged

\* the statement's transaction ends: a setting made with is_local = true is
\* gone, and the connection goes back to the pool
StatementEnd(p) ==
    /\ ctxReq[p].pc = "exec"
    /\ dbconn' = [k \in Conns |->
                    IF dbconn[k].holder = p THEN FreeConn ELSE dbconn[k]]
    /\ ctxReq' = [ctxReq EXCEPT ![p].pc = "handler"]
    /\ StatementUnchanged

\* a query of an ingestion handler takes a free connection of the handlers'
\* pool and runs under the setting it finds; handleLocationUpdate runs the
\* session lookup (line 246) and the insert of the Fix (line 296)
HandlerQuery(p, k) ==
    /\ ctxReq[p].pc = "handler"
    /\ Len(ctxReq[p].seen) < Len(<<"First", "Create">>)
    /\ k \in HandlerConns
    /\ dbconn[k].holder = ""
    /\ ctxReq' = [ctxReq EXCEPT ![p].seen = Append(@, dbconn[k].var)]
    /\ UNCHANGED dbconn
    /\ StatementUnchanged

\* the handler has answered
ContextReturn(p) ==
    /\ ctxReq[p].pc = "handler"
    /\ ctxReq[p].seen # <<>>
    /\ ctxReq' = [ctxReq EXCEPT ![p] = IdleCtx]
    /\ UNCHANGED dbconn
    /\ StatementUnchanged

Init ==
    /\ InitIdentity
    /\ now = 0
    /\ sessions = <<>>
    /\ cache = [i \in 1..MaxSessions |-> <<>>]
    /\ locations = <<>>
    /\ req = [p \in Procs |-> IdleReq]
    /\ chan = <<>>
    /\ queued = 0
    /\ dropped = 0
    /\ worker = [w \in Workers |-> [pc |-> "recv", event |-> <<>>]]
    /\ shutdown = "running"
    /\ bus = <<>>
    /\ consumer = [pc |-> "read", event |-> <<>>]
    /\ dlq = <<>>
    /\ sweeper = [s \in Sweepers |->
                    [pc |-> "sleep", batch |-> <<>>, ok |-> FALSE, seen |-> {}]]
    /\ postLog = {}
    /\ lastPost = <<>>
    /\ hist = [fixStatus |-> <<>>, emitted |-> {}, droppedIds |-> {},
               delivered |-> {}, panics |-> 0, gated |-> {}, gatedOnError |-> {}, delays |-> <<>>,
               maxed |-> {}]

\* POST /session/start of the callers us, served by the goroutines ps
StartHandlers(ps, us, ds, cap) ==
    \E p \in ps :
        \/ \E u \in us, d \in ds : StartSession(p, u, d, cap)
        \/ \E ok \in BOOLEAN : StartCreate(p, ok)
        \/ \E ok \in BOOLEAN : StartCache(p, ok)

\* POST /session/:id/stop
StopHandlers(ps, us, sids) ==
    \E p \in ps :
        \/ \E u \in us, sid \in sids : StopSession(p, u, sid)
        \/ \E ok \in BOOLEAN : StopSave(p, ok)
        \/ StopDel(p)

\* POST /update
UpdateHandlers(ps, us, sids, cap) ==
    \E p \in ps :
        \/ \E u \in us, sid \in sids, c \in CoordInputs :
               LocationUpdate(p, u, sid, c, cap)
        \/ UpdateDbRead(p)
        \/ UpdateCachePut(p)
        \/ \E ok \in BOOLEAN : UpdateWrite(p, ok)
        \/ SendLocationEvent(p)

Producer ==
    \/ \E w \in Workers : WorkerReceive(w)
    \/ \E w \in Workers, ok \in BOOLEAN : WorkerSend(w, ok)

ProducerClose ==
    \/ \E w \in Workers : WorkerShutdown(w)
    \/ CloseSignal
    \/ CloseFinish

Consumer ==
    \/ ConsumerRead
    \/ \E ok \in BOOLEAN : ConsumerPost(ok)
    \/ \E dbOk \in BOOLEAN : StoreFailedUpdate(dbOk)

Sweep(ss) ==
    \E s \in ss :
        \/ SweepSelect(s)
        \/ \E readOk \in BOOLEAN : RetryCheck(s, readOk)
        \/ \E ok \in BOOLEAN : RetryPost(s, ok)
        \/ RetrySave(s)

\* The state in which caller u1 has started session 1, n fixes of it have been
\* accepted and the producer has written their events to the bus.
InitPipeline(n) ==
    /\ InitIdentity
    /\ now = 0
    /\ sessions = <<NewSession(1, "u1", DefaultDuration)>>
    /\ cache = [i \in 1..MaxSessions |->
                  IF i = 1 THEN <<CacheEntry(sessions[1], DefaultDuration)>>
                  ELSE <<>>]
    /\ locations = [i \in 1..n |->
                      NewLocation(i, [IdleReq EXCEPT !.user = "u1", !.sid = 1,
                                                     !.lat = 40, !.lon = -74])]
    /\ req = [p \in Procs |-> IdleReq]
    /\ chan = <<>>
    /\ queued = n
    /\ dropped = 0
    /\ worker = [w \in Workers |-> [pc |-> "recv", event |-> <<>>]]
    /\ shutdown = "running"
    /\ bus = [i \in 1..n |-> Marshal(NewLocationEvent(locations[i]))]
    /\ consumer = [pc |-> "read", event |-> <<>>]
    /\ dlq = <<>>
    /\ sweeper = [s \in Sweepers |->
                    [pc |-> "sleep", batch |-> <<>>, ok |-> FALSE, seen |-> {}]]
    /\ postLog = {}
    /\ lastPost = <<>>
    /\ hist = [fixStatus |-> [i \in 1..n |-> SessionStatusActive],
               emitted |-> 1..n, droppedIds |-> {}, delivered |-> {},
               panics |-> 0, gated |-> {}, gatedOnError |-> {}, delays |-> <<>>,
               maxed |-> {}]

\* Delivery and retry: the consumer, two retry-consumer instances and the
\* caller's stop requests, from the state with PipeFixes events on the bus.
Next ==
    \/ StopHandlers({"p1"}, {"u1"}, {1})
    \/ Return("p1")
    \/ Consumer
    \/ Sweep(Sweepers)
    \/ Tick(MaxTime)

Spec == InitPipeline(PipeFixes) /\ [][Next]_vars

\* Ingestion to delivery: one caller, the producer pool and the consumer.
NextProducer ==
    \/ StartHandlers({"p1"}, {"u1"}, {0}, PipeSessions)
    \/ UpdateHandlers({"p1"}, {"u1"}, 1..PipeSessions, MaxFixes)
    \/ Return("p1")
    \/ Producer
    \/ ProducerClose
    \/ Consumer

SpecProducer == Init /\ [][NextProducer]_vars

\* The session handlers under concurrent requests of one caller.
NextSession ==
    \/ StartHandlers(Procs, {"u1"}, {0}, MaxSessions)
    \/ StopHandlers(Procs, {"u1"}, 1..MaxSessions)
    \/ UpdateHandlers(Procs, {"u1"}, 1..MaxSessions, MaxFixes)
    \/ \E p \in Procs : Return(p)

SpecSession == Init /\ [][NextSession]_vars

\* Backoff: one failed event, one retry-consumer, a long clock.
NextBackoff ==
    \/ Consumer
    \/ Sweep({"s1"})
    \/ Tick(MaxTime)
    \/ Elapse(MaxBackoffTime)

SpecBackoff == InitPipeline(1) /\ [][NextBackoff]_vars

\* the sweep when every read of the session status succeeds
SweepReading(ss) ==
    \E s \in ss :
        \/ SweepSelect(s)
        \/ RetryCheck(s, TRUE)
        \/ \E ok \in BOOLEAN : RetryPost(s, ok)
        \/ RetrySave(s)

\* Backoff with two retry-consumer instances, the second of which starts no
\* sweep after MaxTime and may be slow in the sweep it has started.
NextBackoffPair ==
    \/ Consumer
    \/ SweepReading({"s1"})
    \/ (sweeper["s2"].pc = "sleep" => now <= MaxTime) /\ SweepReading({"s2"})
    \/ Tick(MaxTime)
    \/ Elapse(MaxBackoffTime)

SpecBackoffPair == InitPipeline(1) /\ [][NextBackoffPair]_vars

\* the sweep under given outcomes of the status read and of the POST
SweepWith(ss, reads, posts) ==
    \E s \in ss :
        \/ SweepSelect(s)
        \/ \E readOk \in reads : RetryCheck(s, readOk)
        \/ \E ok \in posts : RetryPost(s, ok)
        \/ RetrySave(s)

\* minute in which the consumer stored row i of a backlog of n rows: the
\* older half in minute 0, the newer half in minute 1, the last row in minute 2
BacklogMinute(i, n) == IF i = n THEN 2 ELSE IF 2 * i <= n THEN 0 ELSE 1

\* The state in minute 2 after the consumer failed to deliver n fixes of
\* session 1 and stored a row for each, before any retry-consumer has run.
InitBacklog(n) ==
    /\ InitIdentity
    /\ now = 2
    /\ sessions = <<[NewSession(1, "u1", DefaultDuration) EXCEPT !.started_at = 0]>>
    /\ cache = [i \in 1..MaxSessions |-> <<>>]
    /\ locations = [i \in 1..n |->
                      [NewLocation(i, [IdleReq EXCEPT !.user = "u1", !.sid = 1,
                                                      !.lat = 40, !.lon = -74])
                          EXCEPT !.ts = BacklogMinute(i, n)]]
    /\ req = [p \in Procs |-> IdleReq]
    /\ chan = <<>>
    /\ queued = n
    /\ dropped = 0
    /\ worker = [w \in Workers |-> [pc |-> "recv", event |-> <<>>]]
    /\ shutdown = "running"
    /\ bus = <<>>
    /\ consumer = [pc |-> "read", event |-> <<>>]
    /\ dlq = [i \in 1..n |->
                [FailedRow(i, Unmarshal(Marshal(NewLocationEvent(locations[i]))))
                    EXCEPT !.created_at = BacklogMinute(i, n),
                           !.updated_at = BacklogMinute(i, n),
                           !.next_retry_at = BacklogMinute(i, n) + BaseDelay]]
    /\ sweeper = [s \in Sweepers |->
                    [pc |-> "sleep", batch |-> <<>>, ok |-> FALSE, seen |-> {}]]
    /\ postLog = {[by |-> "consumer", row |-> NoId, id |-> i,
                   sess |-> SessionStatusActive, late |-> FALSE] : i \in 1..n}
    /\ lastPost = <<Unmarshal(Marshal(NewLocationEvent(locations[n])))>>
    /\ hist = [fixStatus |-> [i \in 1..n |-> SessionStatusActive],
               emitted |-> 1..n, droppedIds |-> {}, delivered |-> {},
               panics |-> 0, gated |-> {}, gatedOnError |-> {},
               delays |-> [i \in 1..n |-> <<BaseDelay>>], maxed |-> {}]

\* Priority: one retry-consumer facing a backlog while the endpoint is down.
NextPriority ==
    \/ SweepWith({"s1"}, {TRUE}, {FALSE})
    \/ Tick(MaxTime)

SpecPriority == (\E n \in {3, BacklogRows} : InitBacklog(n)) /\ [][NextPriority]_vars

\* Sessions of two tenants in storage and any content of the redis keys
\* session:active:{id}: nothing, or the payload of either session.
InitCorrupt ==
    /\ InitIdentity
    /\ now = 0
    /\ sessions = <<NewSession(1, "u1", DefaultDuration),
                    NewSession(2, "u2", DefaultDuration)>>
    /\ cache \in [1..MaxSessions ->
                    {<<>>} \cup {<<CacheEntry(sessions[j], DefaultDuration)>> :
                                    j \in 1..2}]
    /\ locations = <<>>
    /\ req = [p \in Procs |-> IdleReq]
    /\ chan = <<>>
    /\ queued = 0
    /\ dropped = 0
    /\ worker = [w \in Workers |-> [pc |-> "recv", event |-> <<>>]]
    /\ shutdown = "running"
    /\ bus = <<>>
    /\ consumer = [pc |-> "read", event |-> <<>>]
    /\ dlq = <<>>
    /\ sweeper = [s \in Sweepers |->
                    [pc |-> "sleep", batch |-> <<>>, ok |-> FALSE, seen |-> {}]]
    /\ postLog = {}
    /\ lastPost = <<>>
    /\ hist = [fixStatus |-> <<>>, emitted |-> {}, droppedIds |-> {},
               delivered |-> {}, panics |-> 0, gated |-> {}, gatedOnError |-> {},
               delays |-> <<>>, maxed |-> {}]

\* POST /update of callers of both tenants over any cache content.
NextCache ==
    \/ UpdateHandlers({"p1"}, Users, 1..2, MaxFixes)
    \/ Return("p1")

SpecCache == InitCorrupt /\ [][NextCache]_vars

\* A caller of tenant tA with sessions and fixes, and a caller of tenant tB
\* who sends POST /update naming the sessions of tenant tA.
NextProbe ==
    \/ StartHandlers({"p1"}, {"u1"}, {0}, PipeSessions)
    \/ UpdateHandlers({"p1"}, {"u1"}, 1..PipeSessions, MaxFixes)
    \/ StopHandlers({"p1"}, {"u1"}, 1..PipeSessions)
    \/ UpdateHandlers({"p2"}, {"u2"}, 1..PipeSessions, MaxFixes)
    \/ \E p \in Procs : Return(p)

SpecProbe == Init /\ [][NextProbe]_vars

\* Sessions of one caller that outlive their duration while fixes arrive.
NextExpiry ==
    \/ StartHandlers({"p1"}, {"u1"}, DurationInputs, PipeSessions)
    \/ UpdateHandlers({"p1"}, {"u1"}, 1..PipeSessions, MaxFixes)
    \/ UpdateExpireDel("p1")
    \/ Return("p1")
    \/ Tick(MaxTime)

SpecExpiry == Init /\ [][NextExpiry]_vars

\* StartSessionRequest.Duration is a plain int with no binding rule: a start
\* request can carry a negative number of seconds as well
StartDurations == DurationInputs \cup {-60}

\* Sessions of every duration a start request can carry, cached at start and
\* again on a cache miss of a fix.
NextTTL ==
    \/ StartHandlers({"p1"}, {"u1"}, StartDurations, MaxSessions)
    \/ UpdateHandlers({"p1"}, {"u1"}, 1..MaxSessions, MaxFixes)
    \/ UpdateExpireDel("p1")
    \/ Return("p1")
    \/ Tick(MaxTime)

SpecTTL == Init /\ [][NextTTL]_vars

\* Shutdown of the producer while fixes of the caller still arrive.
NextClose ==
    \/ \E p \in Procs : LocationUpdate(p, "u1", 1, <<40, -74>>, MaxFixes)
    \/ \E p \in Procs, ok \in BOOLEAN : UpdateWrite(p, ok)
    \/ \E p \in Procs : SendLocationEvent(p)
    \/ \E p \in Procs : Return(p)
    \/ Producer
    \/ ProducerClose

\* The write of a worker returns (its context times out after 5 s); a select
\* with several ready cases picks one at random, so a worker that is back at
\* its select again and again takes the shutdown case; Close runs on.
FairClose ==
    /\ \A w \in Workers :
          /\ WF_vars(\E ok \in BOOLEAN : WorkerSend(w, ok))
          /\ SF_vars(WorkerShutdown(w))
    /\ WF_vars(CloseFinish)

SpecClose == InitPipeline(0) /\ [][NextClose]_vars /\ FairClose

\* Delivery and retry while retry-consumer instances come to their end.
NextExit ==
    \/ Consumer
    \/ Sweep(Sweepers)
    \/ \E s \in Sweepers : ProcessExit(s)
    \/ Tick(MaxTime)

SpecExit == InitPipeline(PipeFixes) /\ [][NextExit]_vars

\* The whole life of a caller's sessions: start, fixes, stop and expiry,
\* served concurrently while time passes.
NextLifecycle ==
    \/ StartHandlers({"p1"}, {"u1"}, DurationInputs, MaxSessions)
    \/ StopHandlers({"p2"}, {"u1"}, 1..MaxSessions)
    \/ UpdateHandlers({"p1"}, {"u1"}, 1..MaxSessions, PipeFixes)
    \/ UpdateExpireDel("p1")
    \/ \E p \in Procs : Return(p)
    \/ Tick(MaxTime)

SpecLifecycle == Init /\ [][NextLifecycle]_vars

\* Concurrent registrations, each of its own username, through the breaker.
NextRegister ==
    \/ \E c \in Callers : HandlerStart(c, "register")
    \/ \E c \in Callers : HandlerCall(c)
    \/ \E c \in Callers, ok \in BOOLEAN : CallFn(c, ok)
    \/ \E c \in Callers : CallRecord(c)
    \/ \E c \in Callers : RegisterRefused(c)
    \/ \E c \in Callers, ok \in BOOLEAN : RegisterCreate(c, ok)
    \/ \E c \in Callers : RegisterCompensated(c)
    \/ \E c \in Callers : HandlerReturn(c)
    \/ ClockTick(MaxClock)

SpecRegister == Init /\ [][NextRegister]_vars

\* Concurrent fixes of one caller against the event channel and its workers.
NextEnqueue ==
    \/ StartHandlers({"p1"}, {"u1"}, {0}, PipeSessions)
    \/ UpdateHandlers(Procs, {"u1"}, 1..PipeSessions, MaxFixes)
    \/ \E p \in Procs : Return(p)
    \/ Producer

SpecEnqueue == Init /\ [][NextEnqueue]_vars

\* Storage as the read handlers may find it: sessions of both tenants, and
\* Fix rows of either tenant under any session id.
Tenants == {TenantOf(u) : u \in Users}

InitStorage ==
    /\ InitIdentity
    /\ now = MaxSessions
    /\ \E owner \in [1..MaxSessions -> Users] :
         sessions = [i \in 1..MaxSessions |->
                        [NewSession(i, owner[i], DefaultDuration)
                            EXCEPT !.started_at = i \div 2]]
    /\ \E t \in [1..MaxFixes -> Tenants], sid \in [1..MaxFixes -> 1..MaxSessions],
          u \in [1..MaxFixes -> Users] :
         locations = [i \in 1..MaxFixes |->
                        [id |-> i, tenant |-> t[i], session |-> sid[i],
                         user |-> u[i], lat |-> 0, lon |-> 0,
                         ts |-> (MaxFixes - i) \div 2]]
    /\ cache = [i \in 1..MaxSessions |-> <<>>]
    /\ req = [p \in Procs |-> IdleReq]
    /\ chan = <<>>
    /\ queued = 0
    /\ dropped = 0
    /\ worker = [w \in Workers |-> [pc |-> "recv", event |-> <<>>]]
    /\ shutdown = "running"
    /\ bus = <<>>
    /\ consumer = [pc |-> "read", event |-> <<>>]
    /\ dlq = <<>>
    /\ sweeper = [s \in Sweepers |->
                    [pc |-> "sleep", batch |-> <<>>, ok |-> FALSE, seen |-> {}]]
    /\ postLog = {}
    /\ lastPost = <<>>
    /\ hist = [fixStatus |-> [i \in 1..MaxFixes |-> SessionStatusActive], emitted |-> {},
               droppedIds |-> {}, delivered |-> {}, panics |-> 0, gated |-> {},
               gatedOnError |-> {}, delays |-> <<>>, maxed |-> {}]

ReadHandlers(ps, us, sids) ==
    \E p \in ps, dbOk \in BOOLEAN :
        \/ \E u \in us, sid \in sids : GetSession(p, u, sid, dbOk)
        \/ \E u \in us : GetUserSessions(p, u, dbOk)
        \/ \E u \in us, sid \in sids : GetSessionLocations(p, u, sid, dbOk)
        \/ LocationsRead(p, dbOk)

NextReads ==
    \/ ReadHandlers({"p1"}, Users, 1..MaxSessions)
    \/ Return("p1")

SpecReads == InitStorage /\ [][NextReads]_vars

\* Login, authenticated requests and logout of one token, with the background
\* updates the middleware starts.
NextAuth ==
    \/ \E t \in Tokens, ttl \in TtlInputs : Login(t, ttl)
    \/ \E p \in AuthProcs, t \in Bearers : RequireAuth(p, t)
    \/ \E t \in Tokens : RevokeTokenSession(t)
    \/ \E k \in Touchers : TouchGet(k) \/ TouchSet(k)
    \/ \E p \in AuthProcs : AuthHandler(p) \/ AuthReturn(p)
    \/ Tick(MaxTime)

SpecAuth == Init /\ [][NextAuth]_vars

\* Concurrent handlers calling the identity provider through the breaker.
NextBreaker ==
    \/ \E c \in Callers : CallEnter(c)
    \/ \E c \in Callers, ok \in BOOLEAN : CallFn(c, ok)
    \/ \E c \in Callers : CallRecord(c)
    \/ \E c \in Callers : CallReturn(c)
    \/ ClockTick(MaxClock)

SpecBreaker == Init /\ [][NextBreaker]_vars

\* Login and register handlers calling the identity provider through the
\* breaker.
NextLogin ==
    \/ \E c \in Callers, kind \in {"login", "register"} : HandlerStart(c, kind)
    \/ \E c \in Callers : HandlerCall(c)
    \/ \E c \in Callers, ok \in BOOLEAN : CallFn(c, ok)
    \/ \E c \in Callers : CallRecord(c)
    \/ \E c \in Callers : HandlerRespond(c)
    \/ \E c \in Callers : HandlerReturn(c)
    \/ ClockTick(MaxClock)

SpecLogin == Init /\ [][NextLogin]_vars

\* Requests of two tenants through the middleware and an ingestion handler.
NextContext ==
    \/ \E p \in CtxProcs, u \in Users, k \in Conns : SetTenantContext(p, u, k)
    \/ \E p \in CtxProcs : StatementEnd(p)
    \/ \E p \in CtxProcs, k \in Conns : HandlerQuery(p, k)
    \/ \E p \in CtxProcs : ContextReturn(p)

SpecContext == Init /\ [][NextContext]_vars

\* Callers of two tenants sending one fix after the other, and the worker pool.
NextSerial ==
    \/ StartHandlers({"p1"}, Users, {0}, MaxSessions)
    \/ UpdateHandlers({"p1"}, Users, 1..MaxSessions, MaxFixes)
    \/ Return("p1")
    \/ Producer

SpecSerial == Init /\ [][NextSerial]_vars

\* Fixes of the caller on its active session, with storage working.
NextCoords ==
    \/ \E p \in Procs, c \in CoordInputs : LocationUpdate(p, "u1", 1, c, MaxFixes)
    \/ \E p \in Procs : UpdateWrite(p, TRUE)
    \/ \E p \in Procs : SendLocationEvent(p)
    \/ \E p \in Procs : Return(p)
    \/ Producer

SpecCoords == InitPipeline(0) /\ [][NextCoords]_vars

\* Stop requests on one active session, repeated and concurrent.
NextStop ==
    \/ StopHandlers(Procs, Users, 1..PipeSessions)
    \/ \E p \in Procs : Return(p)
    \/ Tick(MaxTime)

SpecStop == InitPipeline(0) /\ [][NextStop]_vars

\* ================================================================ claims
Terminal == {"resolved", "permanently_failed"}
InactiveReasons == {"session inactive", "session not found or inactive"}

\* the row a sweeper is working on
Current(s) == Head(sweeper[s].batch)

\* C1: every POST of a location event to the external endpoint, by the
\* consumer or by the retry sweep, is issued while the event's session has
\* status active in storage.
C1_NoPostForInactiveSession ==
    \A p \in postLog : p.sess = SessionStatusActive

\* C2: a retry step on a row whose session is absent or not active leaves the
\* row permanently_failed with a session-inactive reason and issues no POST;
\* no sweep that begins after such a step POSTs the row.
C2_GateStep ==
    \A s \in Sweepers :
        ( /\ sweeper[s].pc = "check"
          /\ sweeper'[s] # sweeper[s]
          /\ Current(s).session_id # NoId
          /\ SessionStatusOf(Current(s).session_id) # SessionStatusActive )
        => /\ dlq'[Current(s).id].status = "permanently_failed"
           /\ dlq'[Current(s).id].error_message \in InactiveReasons
           /\ postLog' = postLog
           /\ sweeper'[s].pc # "post"

C3_SessionUniqueness ==
    \A u \in Users :
        Cardinality({i \in SessionIds : /\ sessions[i].user = u
                                        /\ sessions[i].status = SessionStatusActive}) <= 1

\* C4: every Fix row is inserted while its session has status active in
\* storage.
C4_FixLegality ==
    \A i \in 1..Len(locations) : hist.fixStatus[i] = SessionStatusActive

\* C5: a row with status resolved or permanently_failed is never changed
\* again.
C5_TerminalPermanence ==
    [][\A i \in DlqIds : dlq[i].status \in Terminal => dlq'[i] = dlq[i]]_vars

\* C6: a row has status retried exactly while a sweeper is in the POST call on
\* it, and no two sweepers are in the POST call on the same row.
C6_SweepAndClaim ==
    /\ \A s \in Sweepers :
          sweeper[s].pc = "post" =>
              /\ dlq[Current(s).id].status = "retried"
              /\ \A t \in Sweepers \ {s} :
                    ~(sweeper[t].pc = "post" /\ Current(t).id = Current(s).id)
    /\ \A i \in DlqIds :
          dlq[i].status = "retried" =>
              \E s \in Sweepers : sweeper[s].pc = "post" /\ Current(s).id = i

\* C7: every emitted event is on its way to the endpoint, was POSTed with a
\* 2xx, has a DeadLetter row, or was dropped by the producer and counted.
InTransit(e) ==
    \/ /\ \E i \in 1..Len(chan) : chan[i].ID = e
       /\ \E w \in Workers : worker[w].pc # "exited"
    \/ \E w \in Workers : worker[w].event # <<>> /\ worker[w].event[1].ID = e
    \/ \E i \in 1..Len(bus) : bus[i].id = e
    \/ consumer.event # <<>> /\ consumer.event[1].ID = e

C7_EventAccounting ==
    /\ dropped = Cardinality(hist.droppedIds)
    /\ \A e \in hist.emitted :
          \/ InTransit(e)
          \/ e \in hist.delivered
          \/ \E i \in DlqIds : dlq[i].original_event_id = e
          \/ e \in hist.droppedIds

\* C8: a failed POST of the consumer inserts exactly one DeadLetter row with
\* retry_count 0, status pending, next_retry_at one minute ahead and the
\* event's id, tenant, subject, session and coordinates; a 2xx inserts none.
C8_RowOfFix(r, fix) ==
    /\ r.retry_count = 0
    /\ r.status = "pending"
    /\ r.next_retry_at = now + BaseDelay
    /\ r.original_event_id = fix.id
    /\ r.tenant_id = fix.tenant
    /\ r.user_id = fix.user
    /\ r.session_id = fix.session
    /\ r.latitude = fix.lat
    /\ r.longitude = fix.lon

C8_Step ==
    /\ (consumer.pc = "store" /\ consumer' # consumer) =>
          /\ Len(dlq') = Len(dlq) + 1
          /\ C8_RowOfFix(dlq'[Len(dlq')], locations[consumer.event[1].ID])
    /\ (consumer.pc = "post" /\ consumer'.pc = "read") => dlq' = dlq

C8_ConsumerFailureRouting == [][C8_Step]_vars

\* C9 as stated: a row with retry_count k has
\* next_retry_at - updated_at = 1 minute x 2^(k-1); both sides are doubled.
C9_Original ==
    \A i \in DlqIds :
        2 * (dlq[i].next_retry_at - dlq[i].updated_at)
            = BaseDelay * Pow2(dlq[i].retry_count)

\* C9 amended: a pending row with retry_count k >= 1 has
\* next_retry_at - updated_at = 1 minute x 2^(k-1), and a pending row with
\* retry_count 0 has next_retry_at - updated_at = 1 minute.
C9_Backoff ==
    \A i \in DlqIds :
        dlq[i].status = "pending" =>
            dlq[i].next_retry_at - dlq[i].updated_at =
                IF dlq[i].retry_count = 0 THEN BaseDelay
                ELSE BaseDelay * Pow2(dlq[i].retry_count - 1)

C9_Witness ==
    \E i \in DlqIds :
        /\ dlq[i].status = "pending"
        /\ dlq[i].retry_count = 7
        /\ dlq[i].next_retry_at - dlq[i].updated_at = 64

\* C10: the delays of a row whose POST keeps failing are 1, 2, 4, 8, 16, 32,
\* 64 and 128 minutes, in this order, before it becomes permanently_failed.
Schedule == <<1, 2, 4, 8, 16, 32, 64, 128>>

C10_BackoffSchedule ==
    \A i \in DlqIds :
        /\ Len(hist.delays[i]) <= Len(Schedule)
        /\ hist.delays[i] = SubSeq(Schedule, 1, Len(hist.delays[i]))
        /\ dlq[i].error_message = "max retries reached" =>
              hist.delays[i] = Schedule

\* C11: every row has retry_count <= 8 and every pending row retry_count < 8;
\* a failed retry of a row with retry_count 7 leaves it at 8 and
\* permanently_failed; no sweep that starts later selects the row.
C11_Bound ==
    \A i \in DlqIds :
        /\ dlq[i].retry_count <= maxRetries
        /\ dlq[i].status = "pending" => dlq[i].retry_count < maxRetries

C11_LastRetry ==
    \A s \in Sweepers :
        ( /\ sweeper[s].pc = "save"
          /\ sweeper'[s] # sweeper[s]
          /\ ~sweeper[s].ok
          /\ Current(s).retry_count = maxRetries - 1 )
        => /\ dlq'[Current(s).id].retry_count = maxRetries
           /\ dlq'[Current(s).id].status = "permanently_failed"

C11_NoLaterSweep ==
    \A s \in Sweepers :
        (sweeper[s].pc = "sleep" /\ sweeper'[s].pc = "check")
        => \A k \in 1..Len(sweeper'[s].batch) :
              sweeper'[s].batch[k].id \notin hist.maxed

C11_RetryBound ==
    /\ []C11_Bound
    /\ [][C11_LastRetry]_vars
    /\ [][C11_NoLaterSweep]_vars

\* C12: a selected batch has at most batch_size rows, all of them pending and
\* due, in non-increasing created_at order; no due pending row outside it is
\* newer than a row inside it; the rows are processed in the order of the batch.
C12_Select ==
    \A s \in Sweepers :
        (sweeper[s].pc = "sleep" /\ sweeper'[s].pc = "check") =>
            LET b == sweeper'[s].batch
                inside == {b[k].id : k \in 1..Len(b)}
            IN /\ Len(b) <= batchSize
               /\ Cardinality(inside) = Len(b)
               /\ \A k \in 1..Len(b) : b[k] = dlq[b[k].id] /\ Due(b[k])
               /\ \A k \in 1..(Len(b) - 1) : b[k].created_at >= b[k + 1].created_at
               /\ \A j \in DlqIds \ inside :
                     Due(dlq[j]) =>
                        /\ Len(b) = batchSize
                        /\ \A k \in 1..Len(b) : dlq[j].created_at <= b[k].created_at

C12_InOrder ==
    \A s \in Sweepers :
        (sweeper[s].pc \in {"check", "post", "save"} /\ sweeper'[s] # sweeper[s]) =>
            /\ \A i \in DlqIds : dlq'[i] # dlq[i] => i = Current(s).id
            /\ \/ sweeper'[s].batch = sweeper[s].batch
               \/ sweeper'[s].batch = Tail(sweeper[s].batch)

C12_Priority == [][C12_Select /\ C12_InOrder]_vars

C12_Witness ==
    \E s \in Sweepers :
        /\ sweeper[s].pc = "post"
        /\ Len(sweeper[s].batch) = batchSize - 1
        /\ Current(s).created_at
              > sweeper[s].batch[Len(sweeper[s].batch)].created_at
        /\ \E j \in DlqIds :
              /\ Due(dlq[j])
              /\ \A k \in 1..Len(sweeper[s].batch) : sweeper[s].batch[k].id # j

\* C14: whatever the cache entry of a session id holds, a Fix is persisted for
\* that id only if the session with that id in storage belongs to the tenant
\* and subject of the request; a hit of another tenant or subject is a miss.
C14_FixOwner ==
    \A i \in 1..Len(locations) :
        /\ locations[i].session \in SessionIds
        /\ sessions[locations[i].session].tenant = locations[i].tenant
        /\ sessions[locations[i].session].user = locations[i].user

C14_MismatchIsMiss ==
    \A p \in Procs :
        ( /\ req[p].pc = "idle"
          /\ req'[p].pc \in {"upd_write", "upd_db"}
          /\ CacheGet(req'[p].sid) # <<>>
          /\ \/ CacheGet(req'[p].sid)[1].sess.user # req'[p].user
             \/ CacheGet(req'[p].sid)[1].sess.tenant # TenantOf(req'[p].user) )
        => req'[p].pc = "upd_db"

C14_CacheCorruption == []C14_FixOwner /\ [][C14_MismatchIsMiss]_vars

\* C15: POST /update of a caller of one tenant naming a session of another
\* tenant is answered 404 and creates no Fix, no Event and no DeadLetter row,
\* and leaves the session row and its cache entry unchanged.
C15_IsProbe(r) ==
    /\ r.pc \in {"upd_db", "upd_cache", "upd_write", "upd_send", "done"}
    /\ r.sid \in SessionIds
    /\ sessions[r.sid].tenant # TenantOf(r.user)
    /\ r.lat # 0
    /\ r.lon # 0

C15_Step ==
    \A p \in Procs :
        (req'[p] # req[p] /\ C15_IsProbe(req'[p])) =>
            /\ req'[p].pc \in {"upd_db", "done"}
            /\ req'[p].pc = "done" => req'[p].resp = 404
            /\ UNCHANGED <<locations, chan, queued, dropped, bus, dlq, sessions,
                           cache>>

C16_Step ==
    \A p \in Procs :
        /\ (req[p].pc = "upd_write" /\ req'[p].pc = "upd_expire_del") =>
              /\ sessions'[req[p].sid].status = SessionStatusExpired
              /\ UNCHANGED <<locations, chan, queued, dropped>>
        /\ (req[p].pc = "upd_expire_del" /\ req'[p].pc = "done") =>
              /\ cache'[req[p].sid] = <<>>
              /\ req'[p].resp = 400
              /\ sessions[req[p].sid].status = SessionStatusExpired
              /\ UNCHANGED <<locations, chan, queued, dropped>>

C16_ExpiryOnWrite == [][C16_Step]_vars

\* C17: SendLocationEvent never blocks; the channel never holds more than its
\* capacity; queued + dropped equals the number of calls; a call is counted
\* as dropped exactly when the channel was full; the Fix stays stored and the
\* answer is 200 either way.
C17_Accounting ==
    /\ Len(chan) <= QueueCap
    /\ queued + dropped = Cardinality(hist.emitted)
    /\ dropped = Cardinality(hist.droppedIds)
    /\ \A p \in Procs : req[p].pc = "upd_send" => ENABLED SendLocationEvent(p)

C17_Step ==
    \A p \in Procs :
        (req[p].pc = "upd_send" /\ req'[p] # req[p]) =>
            /\ (dropped' = dropped + 1) <=> (Len(chan) = QueueCap)
            /\ dropped' = dropped =>
                  /\ queued' = queued + 1
                  /\ chan' = Append(chan, NewLocationEvent(locations[req[p].fix]))
            /\ dropped' # dropped => (queued' = queued /\ chan' = chan)
            /\ req'[p].pc = "done"
            /\ req'[p].resp = 200
            /\ locations' = locations
            /\ req[p].fix \in 1..Len(locations)

C17_NonBlockingEnqueue == []C17_Accounting /\ [][C17_Step]_vars

C17_Witness ==
    \E p \in Procs :
        /\ req[p].pc = "done"
        /\ req[p].resp = 200
        /\ req[p].fix \in hist.droppedIds
        /\ req[p].fix \in 1..Len(locations)
        /\ dropped = 1
        /\ queued >= 1

\* C18: every Session and Fix row that get session, list sessions and list
\* session locations return to a caller of tenant T has tenant = T, whatever
\* rows of other tenants the tables hold.
C18_TenantIsolationOnReads ==
    \A p \in Procs :
        \A i \in 1..Len(req[p].body) :
            req[p].body[i].tenant = TenantOf(req[p].user)

C18_Witness ==
    \E p \in Procs :
        /\ req[p].pc = "done"
        /\ req[p].resp = 200
        /\ Len(req[p].body) >= 1
        /\ \E l \in Range(locations) :
              /\ l.session = req[p].sid
              /\ l.tenant # TenantOf(req[p].user)
        /\ \E l \in Range(locations) : req[p].body[1] = l

\* C19: once RevokeTokenSession(t) has returned, every later request bearing
\* t is answered 401 by RequireAuth, however the background updates of
\* LastUsedAt started for earlier requests interleave.
C19_LogoutIsFinal ==
    [][\A p \in AuthProcs :
          (authReq[p].pc = "idle" /\ authReq'[p].pc # "idle"
             /\ authReq'[p].token \in revoked)
          => (authReq'[p].pc = "done" /\ authReq'[p].resp = 401)]_vars

\* C20: from the closed breaker, the failure that completes 5 failures in a
\* row leaves the breaker open; until more than 30 s have passed since the
\* last recorded failure the breaker stays open and every Call that starts
\* returns ErrCircuitOpen without reaching the identity provider; a success
\* recorded while the breaker is closed sets the failure count to 0.
C20_OpenWindow ==
    (streak >= maxFailures /\ clock - breaker.lastFailure <= resetTimeout)
        => breaker.state = StateOpen

C20_Step ==
    \A c \in Callers :
        /\ (call[c].pc = "record" /\ call'[c].pc = "done" /\ ~call[c].ok
               /\ streak >= maxFailures - 1)
              => (breaker'.state = StateOpen /\ breaker'.lastFailure = clock)
        /\ (call[c].pc = "idle" /\ call'[c].pc # "idle"
               /\ breaker.state = StateOpen
               /\ clock - breaker.lastFailure <= resetTimeout)
              => /\ call'[c].pc = "done"
                 /\ call'[c].err = "ErrCircuitOpen"
                 /\ breaker' = breaker
        /\ (call[c].pc = "record" /\ call'[c].pc = "done" /\ call[c].ok
               /\ breaker.state = StateClosed)
              => breaker'.failures = 0

C20_CircuitBreakerTrip == []C20_OpenWindow /\ [][C20_Step]_vars

C20_Witness ==
    /\ breaker.state = StateOpen
    /\ streak = maxFailures
    /\ clock - breaker.lastFailure = (resetTimeout \div ClockStep) * ClockStep
    /\ \E c \in Callers : call[c].pc = "done" /\ call[c].err = "ErrCircuitOpen"

\* C21: in every reachable state in which the breaker is half-open at most
\* one identity-provider call is in flight, calls admitted while the breaker
\* was closed and not yet returned included.
InFlightCalls == {c \in Callers : call[c].pc = "fn"}

C21_HalfOpenGate ==
    breaker.state = StateHalfOpen => Cardinality(InFlightCalls) <= 1

\* C22: whenever the breaker refuses a login or register call without
\* invoking the identity provider (open, or half-open with the probe slot
\* taken), the HTTP answer is 503, never 401 or 400.
C22_Refused(c) == call[c].err \in {"ErrCircuitOpen", "ErrTooManyRequests"}

C22_RejectionsAre503 ==
    \A c \in Callers :
        (call[c].pc = "answered" /\ C22_Refused(c)) => call[c].resp = 503

\* C23: neither a bearer token nor any prefix of it is written to the token
\* session cache (as key or as value) or to the log; the cache key is the
\* hash of the token.
C23_Prefixes(t) ==
    {SubSeq(TokenChars(t), 1, n) : n \in 1..Len(TokenChars(t))}

C23_KeysWritten == {TokenKey(t) : t \in {u \in Tokens : tokenStore[u] # <<>>}}

C23_OpaqueTokenHashing ==
    \A t \in Tokens :
        /\ \A e \in authLog : e.text \notin C23_Prefixes(t)
        /\ \A k \in C23_KeysWritten : k \notin C23_Prefixes(t)
        /\ tokenStore[t] # <<>> =>
              DOMAIN tokenStore[t][1] = {"CreatedAt", "LastUsedAt", "ExpiresAt"}

\* C24: every storage query of an ingestion handler for a request of tenant
\* T runs on a connection whose current-tenant variable equals T at that
\* moment, for any interleaving of requests of different tenants.
C24_TenantContextBeforeReads ==
    \A p \in CtxProcs :
        \A i \in 1..Len(ctxReq[p].seen) :
            ctxReq[p].seen[i] = TenantOf(ctxReq[p].user)

\* C25: for two fixes of one tenant accepted in order f1 then f2 and both
\* enqueued, the event of f1 is written to the bus before the event of f2,
\* with the producer workers draining the channel concurrently.
C25_PerTenantSerialization ==
    \A i, j \in 1..Len(bus) :
        (i < j /\ bus[i].tenant_id = bus[j].tenant_id) => bus[i].id < bus[j].id

\* C26: POST /update on an active, unexpired session of the caller is
\* answered 200 and persists the Fix when latitude is in [-90, 90] and
\* longitude in [-180, 180], the value 0 included, and is answered 400 and
\* persists no Fix otherwise.
C26_CoordinateValidation ==
    \A p \in Procs :
        req[p].pc = "done" =>
            IF CoordsLegal(req[p].lat, req[p].lon)
            THEN /\ req[p].resp = 200
                 /\ req[p].fix \in 1..Len(locations)
                 /\ locations[req[p].fix].lat = req[p].lat
                 /\ locations[req[p].fix].lon = req[p].lon
            ELSE /\ req[p].resp = 400
                 /\ req[p].fix = NoId

\* C27: a stop of a session that an earlier stop has already ended is
\* answered 200 like the first one and leaves the stored session (status
\* ended, same ended_at) as the first stop left it.
C27_EndSessionIdempotent ==
    [][\A p \in Procs :
          (/\ req[p].pc = "idle"
           /\ req'[p].pc # "idle"
           /\ req'[p].sid \in SessionIds
           /\ sessions[req'[p].sid].user = req'[p].user
           /\ sessions[req'[p].sid].status = SessionStatusEnded)
          => (req'[p].pc = "done" /\ req'[p].resp = 200
                /\ sessions' = sessions)]_vars

\* C28: every put into the session cache sets an expiry (its TTL is not
\* negative) that falls exactly at started_at + duration of the session it
\* stores, so the entry never outlives the session's duration.
C28_CacheTTL ==
    [][\A id \in DOMAIN cache :
          (cache'[id] # cache[id] /\ cache'[id] # <<>>)
          => LET e == cache'[id][1]
             IN /\ e.exp # NoTime
                /\ e.exp >= now
                /\ e.exp = e.sess.started_at
                              + (e.sess.duration \div SecondsPerTick)]_vars

\* C29: Close terminates; when it has returned every worker has exited; a
\* worker exits only from its select, with the write it had in flight
\* completed; a worker that has taken the shutdown signal stays exited and
\* starts no further broker write.
C29_Exited(w) == worker[w].pc = "exited"

C29_WorkerStep ==
    \A w \in Workers :
       /\ (~C29_Exited(w) /\ C29_Exited(w)')
            => (worker[w].pc = "recv" /\ worker[w].event = <<>>
                  /\ shutdown # "running")
       /\ C29_Exited(w) => (C29_Exited(w)' /\ worker'[w].event = <<>>)
       /\ (C29_Exited(w) /\ bus' # bus)
            => \E v \in Workers \ {w} : worker[v].pc = "send"

C29_ProducerShutdown ==
    /\ [](shutdown = "closed" => \A w \in Workers : C29_Exited(w))
    /\ [][C29_WorkerStep]_vars
    /\ (shutdown = "signalled" ~> shutdown = "closed")

\* shutdown has been signalled while one worker is in a write and another has
\* already taken the signal
C29_Witness ==
    /\ shutdown = "signalled"
    /\ \E w, v \in Workers : worker[w].pc = "send" /\ C29_Exited(v)

\* C30: the retry scheduler ends only at the check between two sweeps (a
\* sweep that has started runs to its end), and once it has ended it starts
\* no further sweep.
C30_SchedulerShutdown ==
    [][\A s \in Sweepers :
          /\ (sweeper[s].pc # "exited" /\ sweeper'[s].pc = "exited")
               => sweeper[s].pc = "sleep"
          /\ sweeper[s].pc = "exited" => sweeper'[s] = sweeper[s]]_vars

\* C31: the event the consumer has decoded from a bus message has the id,
\* tenant, subject, session, latitude, longitude, timestamp and kind of the
\* event emitted for its Fix, and every DeadLetter row carries the Fix's
\* subject as user_id.
C31_SameEvent(e, loc) ==
    /\ e.TenantID = loc.tenant
    /\ e.UserID = loc.user
    /\ e.SessionID = loc.session
    /\ e.Latitude = loc.lat
    /\ e.Longitude = loc.lon
    /\ e.Timestamp = loc.ts
    /\ e.EventType = "location_update"

C31_BusRoundTrip ==
    /\ consumer.event # <<>>
         => /\ consumer.event[1].ID \in DOMAIN locations
            /\ C31_SameEvent(consumer.event[1], locations[consumer.event[1].ID])
    /\ \A i \in DOMAIN dlq :
          /\ dlq[i].original_event_id \in DOMAIN locations
          /\ dlq[i].user_id = locations[dlq[i].original_event_id].user

\* C32: the event the retry step rebuilds from a DeadLetter row and POSTs has
\* the id, tenant, subject, session, latitude, longitude and timestamp of the
\* event the consumer had decoded when the first delivery failed.
C32_FirstDelivery(f) ==
    Unmarshal(Marshal(NewLocationEvent(locations[f.original_event_id])))

C32_RetryPayloadFidelity ==
    [][\A s \in Sweepers :
          (sweeper[s].pc = "post" /\ sweeper'[s].pc = "save")
          => LET e == lastPost'[1]
                 first == C32_FirstDelivery(Head(sweeper[s].batch))
             IN /\ e.ID = first.ID
                /\ e.TenantID = first.TenantID
                /\ e.UserID = first.UserID
                /\ e.SessionID = first.SessionID
                /\ e.Latitude = first.Latitude
                /\ e.Longitude = first.Longitude
                /\ e.Timestamp = first.Timestamp]_vars

\* C33: a Call that starts while the breaker is open and more than
\* resetTimeout after the last recorded failure is admitted as the probe; when
\* the probe's success is recorded the breaker is closed with failure count 0,
\* and when its failure is recorded the breaker is open with the cooldown
\* starting anew; the breaker is never half-open with the probe slot taken
\* and no call in flight.
C33_Step ==
    \A c \in Callers :
       /\ (/\ call[c].pc = "idle" /\ call'[c].pc # "idle"
           /\ breaker.state = StateOpen
           /\ clock - breaker.lastFailure > resetTimeout)
            => (call'[c].pc = "fn" /\ call'[c].probe
                  /\ breaker'.state = StateHalfOpen)
       /\ (call[c].pc = "record" /\ call'[c].pc = "done" /\ call[c].probe)
            => IF call[c].ok
               THEN breaker'.state = StateClosed /\ breaker'.failures = 0
               ELSE breaker'.state = StateOpen /\ breaker'.lastFailure = clock

C33_BreakerRecovery ==
    /\ [](~(/\ breaker.state = StateHalfOpen
            /\ breaker.halfOpenReq >= halfOpenMax
            /\ \A c \in Callers : call[c].pc \notin {"fn", "record"}))
    /\ [][C33_Step]_vars

\* C34: a request to a protected route whose token has no live token session
\* is answered 401 by RequireAuth, the handler is not run, no background
\* update is started and the token store is unchanged.
C34_NoLiveSession(t) == t \notin DOMAIN tokenStore \/ GetTokenSession(t) = <<>>

C34_InvalidTokenIs401 ==
    [][\A p \in AuthProcs :
          (/\ authReq[p].pc = "idle"
           /\ authReq'[p].pc # "idle"
           /\ C34_NoLiveSession(authReq'[p].token))
          => (/\ authReq'[p].pc = "done"
              /\ authReq'[p].resp = 401
              /\ tokenStore' = tokenStore
              /\ toucher' = toucher)]_vars

\* C35: a session whose stored status is not active never has status active
\* again, and no stored session disappears.
C35_NoReactivation ==
    [][/\ Len(sessions') >= Len(sessions)
       /\ \A i \in SessionIds :
             sessions[i].status # SessionStatusActive
             => sessions'[i].status # SessionStatusActive]_vars

\* session 1 is ended in storage while a request that read it as active from
\* the cache is about to write, after the session's duration has passed
C35_Witness ==
    \E p \in Procs :
       /\ req[p].pc = "upd_write"
       /\ req[p].sess[1].status = SessionStatusActive
       /\ sessions[req[p].sess[1].id].status # SessionStatusActive
       /\ ElapsedSeconds(req[p].sess[1].started_at) > req[p].sess[1].duration

\* C36: the cache holds a live entry session:active:{id} only for a session
\* whose stored status is active; an entry for a session that is no longer
\* active is there only while the request that ended the session has still
\* to delete it, so none is left once stop-session has returned.
C36_DeletePending(id) ==
    \E p \in Procs :
       req[p].pc \in {"stop_del", "upd_expire_del"} /\ req[p].sid = id

C36_CacheCoherence ==
    \A id \in SessionIds :
       (CacheGet(id) # <<>> /\ sessions[id].status # SessionStatusActive)
       => C36_DeletePending(id)

\* C37: a SendLocationEvent call made while Close runs or after it has
\* returned does not panic: it either enqueues the event and counts it as
\* queued, or counts it as dropped.
C37_EnqueueAroundShutdown ==
    [][\A p \in Procs :
          (req[p].pc = "upd_send" /\ req'[p].pc # "upd_send"
             /\ shutdown # "running")
          => (/\ hist'.panics = hist.panics
              /\ \/ queued' = queued + 1 /\ dropped' = dropped
                 \/ queued' = queued /\ dropped' = dropped + 1)]_vars

\* C38: the session check of the retry step marks a row permanently_failed
\* only if, at that moment, the row's session is absent from storage or has
\* a status other than active.
C38_GatingNoFalsePositives ==
    [][\A s \in Sweepers, i \in DOMAIN dlq :
          (/\ sweeper[s].pc = "check"
           /\ sweeper'[s] # sweeper[s]
           /\ Head(sweeper[s].batch).id = dlq[i].id
           /\ dlq'[i].status = "permanently_failed"
           /\ dlq[i].status # "permanently_failed")
          => SessionStatusOf(dlq[i].session_id) # SessionStatusActive]_vars

\* C39: a start request of a subject whose only session has outlived its
\* duration is not refused on account of that session, and an expiry found
\* by an update leaves the session not active in storage whatever the
\* outcome of its write.
C39_Elapsed(s) == ElapsedSeconds(s.started_at) > s.duration

C39_SessionsOf(u) == {i \in SessionIds : sessions[i].user = u}

C39_Step ==
    \A p \in Procs :
       /\ (/\ req[p].pc = "idle"
           /\ req'[p].pc # "idle"
           /\ req'[p].sid = NoId
           /\ Cardinality(C39_SessionsOf(req'[p].user)) = 1
           /\ \A i \in C39_SessionsOf(req'[p].user) : C39_Elapsed(sessions[i]))
            => req'[p].pc = "start_create"
       /\ (req[p].pc = "upd_write" /\ req'[p].pc = "upd_expire_del")
            => sessions'[req[p].sess[1].id].status # SessionStatusActive

C39_ElapsedSessionDoesNotBlock == [][C39_Step]_vars

\* C40: when handleRegister has answered, the identity-provider user and the
\* users row of the registration either both exist or both do not; and the
\* compensating delete, once the handler turns to it, is admitted by the
\* breaker and carried out.
C40_NoOrphan ==
    \A c \in Callers :
       (call[c].kind = "register" /\ call[c].pc = "answered")
       => (call[c].idp <=> call[c].row)

C40_CompensationRuns ==
    \A c \in Callers :
       (call[c].phase = "compensate" /\ call[c].pc = "idle"
          /\ call'[c].pc # "idle")
       => call'[c].pc = "fn"

C40_RegistrationLeavesNoOrphan ==
    []C40_NoOrphan /\ [][C40_CompensationRuns]_vars

====
